---------------------------- MODULE Spec2Model ----------------------------
(***************************************************************************)
(* Model of the Medikah intake triage conversation engine:                 *)
(*   services/triage.py              the stage machine and field parsers   *)
(*   services/conversation_state.py  the session store                     *)
(*   main.py                         chat_endpoint and the booking handoff *)
(*                                                                         *)
(* Texts are TLA+ strings and the text functions work on their characters, *)
(* as the Python code does (substring search, lower, strip, title).        *)
(*                                                                         *)
(* One session id is modelled.  Requests run as asyncio coroutines on one  *)
(* event loop: a request is atomic between two awaits, and the awaits are  *)
(* the text generator call (triage.py:319, 460) and the notification       *)
(* dispatch (main.py:353).  Two requests may be in flight at a time.       *)
(*                                                                         *)
(* Four specifications share the actions: Spec (every database call goes   *)
(* through, requests may overlap), SpecTtl (pauses between requests, for   *)
(* the session TTL), SpecFaults (the database failing and recovering, the  *)
(* appointment insert failing) and SpecNotify (send_bulk on its own).      *)
(*                                                                         *)
(* triage.py names ConversationStage.CONFIRM_IDENTITY and                  *)
(* IntakeHistory.patient_timezone; conversation_state.py under src/ does   *)
(* not declare them, the specification (section 3) does.  The model takes  *)
(* both declarations from the specification: see CONFIRM_IDENTITY and      *)
(* TimezoneField.                                                          *)
(***************************************************************************)
EXTENDS Integers, Sequences, FiniteSets, TLC

(***************************************************************************)
(*                              Text functions                             *)
(***************************************************************************)

Ch(s, i) == SubSeq(s, i, i)

Tail_(s) == SubSeq(s, 2, Len(s))

\* Python: needle in haystack
Contains(haystack, needle) ==
    \E i \in 1..(Len(haystack) - Len(needle) + 1) :
        SubSeq(haystack, i, i + Len(needle) - 1) = needle

UPPER == "ABCDEFGHIJKLMNOPQRSTUVWXYZÁÉÍÓÚÑ"

LOWER == "abcdefghijklmnopqrstuvwxyzáéíóúñ"

IndexIn(alphabet, c) ==
    IF \E i \in 1..Len(alphabet) : Ch(alphabet, i) = c
    THEN CHOOSE i \in 1..Len(alphabet) : Ch(alphabet, i) = c
    ELSE 0

\* the case mappings, as tables from character to character
ToLower == [ c \in { Ch(UPPER, i) : i \in 1..Len(UPPER) } |->
               Ch(LOWER, IndexIn(UPPER, c)) ]

ToUpper == [ c \in { Ch(LOWER, i) : i \in 1..Len(LOWER) } |->
               Ch(UPPER, IndexIn(LOWER, c)) ]

IsUpper(c) == c \in DOMAIN ToLower

IsLower(c) == c \in DOMAIN ToUpper

IsCased(c) == IsUpper(c) \/ IsLower(c)

LowerChar(c) == IF IsUpper(c) THEN ToLower[c] ELSE c

UpperChar(c) == IF IsLower(c) THEN ToUpper[c] ELSE c

IsSpace(c) == c \in {" ", "\t", "\n"}

\* str.lower()
RECURSIVE lower(_)
lower(s) == IF s = "" THEN "" ELSE LowerChar(Ch(s, 1)) \o lower(Tail_(s))

RECURSIVE lstrip(_)
lstrip(s) == IF s # "" /\ IsSpace(Ch(s, 1)) THEN lstrip(Tail_(s)) ELSE s

RECURSIVE rstrip(_)
rstrip(s) ==
    IF s # "" /\ IsSpace(Ch(s, Len(s))) THEN rstrip(SubSeq(s, 1, Len(s) - 1)) ELSE s

\* str.strip()
strip(s) == rstrip(lstrip(s))

\* re.sub(r"\s+", " ", s): every run of whitespace becomes one space
RECURSIVE collapse_ws(_)
collapse_ws(s) ==
    IF s = "" THEN ""
    ELSE IF IsSpace(Ch(s, 1))
         THEN " " \o collapse_ws(lstrip(s))
         ELSE Ch(s, 1) \o collapse_ws(Tail_(s))

\* str.title(): a cased character is upper-cased when the character before it
\* is not cased, lower-cased otherwise
RECURSIVE title_from(_, _)
title_from(s, prevCased) ==
    IF s = "" THEN ""
    ELSE (IF ~IsCased(Ch(s, 1)) THEN Ch(s, 1)
          ELSE IF prevCased THEN LowerChar(Ch(s, 1)) ELSE UpperChar(Ch(s, 1)))
         \o title_from(Tail_(s), IsCased(Ch(s, 1)))

title(s) == title_from(s, FALSE)

EMERGENCY_KEYWORDS ==
    { "chest pain", "shortness of breath", "difficulty breathing",
      "trouble breathing", "bleeding", "unconscious", "can't breathe",
      "cannot breathe", "suicidal", "overdose", "stroke", "heart attack",
      "severe pain", "numbness",
      "dolor de pecho", "falta de aire", "dificultad para respirar",
      "sangrado", "inconsciente", "no puedo respirar", "sobredosis",
      "derrame", "infarto", "dolor severo", "dolor intenso",
      "entumecimiento" }

AFFIRMATIVE_WORDS ==
    { "yes", "yep", "yeah", "affirmative", "please", "sure", "ok", "okay",
      "correct", "right", "good", "great", "perfect", "looks good",
      "that's right", "that's correct", "confirm", "go ahead", "do it",
      "book", "schedule", "let's do it", "sounds good", "all good", "fine",
      "absolutely", "of course", "thanks", "thank you", "that works",
      "works for me", "let's go", "yup",
      "sí", "si", "claro", "por favor", "dale", "de acuerdo", "está bien",
      "correcto", "bien", "perfecto", "todo bien", "adelante", "confírmalo",
      "agéndalo", "listo", "eso es", "confirmado", "confirmo", "todo listo",
      "gracias", "eso", "va", "vamos", "sale" }

NEGATIVE_WORDS ==
    { "no", "nope", "nah", "not now", "later",
      "no gracias", "ahora no", "después", "luego" }

SPANISH_MARKERS ==
    { "hola", "buenos", "tengo", "estoy", "quiero", "necesito", "dolor",
      "siento", "ayuda", "cómo", "qué", "por favor", "gracias", "médico",
      "cita", "salud" }

_detect_emergency(text) ==
    LET lowered == lower(text)
    IN  \E keyword \in EMERGENCY_KEYWORDS : Contains(lowered, keyword)

_has_word(text, words) ==
    LET lowered == lower(text)
    IN  \E word \in words : Contains(lowered, word)

_sanitize_name(raw) == title(collapse_ws(strip(raw)))


(***************************************************************************)
(* email_validator.validate_email(text, check_deliverability=False), the   *)
(* library call of triage.py:396, by its documented behaviour: one "@", a  *)
(* non-empty local part, a domain with a period and no empty label, no     *)
(* whitespace; the normalized address keeps the local part and lower-cases *)
(* the domain.  NoValue stands for EmailNotValidError.                     *)
(***************************************************************************)
NoValue == "<none>"

AtPositions(text) == { i \in 1..Len(text) : Ch(text, i) = "@" }

LocalPart(text) == SubSeq(text, 1, (CHOOSE i \in AtPositions(text) : TRUE) - 1)

DomainPart(text) ==
    SubSeq(text, (CHOOSE i \in AtPositions(text) : TRUE) + 1, Len(text))

validate_email(text) ==
    IF /\ Cardinality(AtPositions(text)) = 1
       /\ \A i \in 1..Len(text) : ~IsSpace(Ch(text, i))
       /\ LocalPart(text) # ""
       /\ Contains(DomainPart(text), ".")
       /\ ~Contains("." \o DomainPart(text) \o ".", "..")
    THEN LocalPart(text) \o "@" \o lower(DomainPart(text))
    ELSE NoValue

(***************************************************************************)
(* Date and time.  An instant is a number of hours since 00:00 UTC of the  *)
(* day the session runs on (day 0); NoTime is Python's None.               *)
(***************************************************************************)
NoTime == -1000000

\* _RELATIVE_TIME_MAP, in the dict's iteration order
_RELATIVE_TIME_MAP ==
    << <<"tomorrow", 1>>, <<"mañana", 1>>, <<"today", 0>>, <<"hoy", 0>>,
       <<"next week", 7>>, <<"la próxima semana", 7>>, <<"proxima semana", 7>>,
       <<"in two days", 2>>, <<"en dos días", 2>>, <<"en dos dias", 2>>,
       <<"in three days", 3>>, <<"en tres días", 3>>, <<"en tres dias", 3>> >>

\* ZoneInfo(tz_name): the zone's offset from UTC in hours; an unknown name
\* falls back to UTC (_resolve_tz)
KnownZones == { <<"UTC", 0>>, <<"America/New_York", -5>>, <<"America/Mexico_City", -6>> }

_resolve_tz(tz_name) ==
    IF \E z \in KnownZones : z[1] = tz_name
    THEN (CHOOSE z \in KnownZones : z[1] = tz_name)[2]
    ELSE 0

\* str.replace(phrase, ""): every occurrence removed, left to right
RECURSIVE remove_all(_, _)
remove_all(s, phrase) ==
    IF Len(s) < Len(phrase) THEN s
    ELSE IF SubSeq(s, 1, Len(phrase)) = phrase
         THEN remove_all(SubSeq(s, Len(phrase) + 1, Len(s)), phrase)
         ELSE Ch(s, 1) \o remove_all(Tail_(s), phrase)

(***************************************************************************)
(* dateutil.parser.parse(text, fuzzy=True), the library call of            *)
(* triage.py:121 and 132, on the shapes of text the model sends: a clock   *)
(* time "<1..12>am" or "<1..12>pm" gives the hour, a known date phrase     *)
(* gives the day; a text with neither raises ParserError (ok = FALSE).     *)
(* A text without a date phrase parses to the current day.                 *)
(***************************************************************************)
ClockTokens ==
    { <<"12am", 0>>, <<"1am", 1>>, <<"2am", 2>>, <<"3am", 3>>, <<"4am", 4>>,
      <<"5am", 5>>, <<"6am", 6>>, <<"7am", 7>>, <<"8am", 8>>, <<"9am", 9>>,
      <<"10am", 10>>, <<"11am", 11>>, <<"12pm", 12>>, <<"1pm", 13>>,
      <<"2pm", 14>>, <<"3pm", 15>>, <<"4pm", 16>>, <<"5pm", 17>>,
      <<"6pm", 18>>, <<"7pm", 19>>, <<"8pm", 20>>, <<"9pm", 21>>,
      <<"10pm", 22>>, <<"11pm", 23>> }

\* a clock token counts when it is not the tail of a longer number ("13pm")
ClockHits(text) ==
    { t \in ClockTokens :
        \E i \in 1..(Len(text) - Len(t[1]) + 1) :
            /\ SubSeq(text, i, i + Len(t[1]) - 1) = t[1]
            /\ (i = 1 \/ IndexIn("0123456789", Ch(text, i - 1)) = 0) }

DateTokens == { <<"february 5", 3>>, <<"in a fortnight", 14>> }

DateHits(text) == { t \in DateTokens : Contains(text, t[1]) }

dt_parse(text, today) ==
    LET lowered == lower(text)
        clocks  == ClockHits(lowered)
        dates   == DateHits(lowered)
    IN  [ ok   |-> clocks # {} \/ dates # {},
          hour |-> IF clocks = {} THEN 0 ELSE (CHOOSE t \in clocks : TRUE)[2],
          day  |-> IF dates = {} THEN today ELSE (CHOOSE t \in dates : TRUE)[2] ]

\* floor division by 24 (local calendar day of an hour count)
DayOf(hours) == IF hours >= 0 THEN hours \div 24 ELSE -((23 - hours) \div 24)

RelativeHits(lowered) ==
    { i \in 1..Len(_RELATIVE_TIME_MAP) : Contains(lowered, _RELATIVE_TIME_MAP[i][1]) }

Min(S) == CHOOSE x \in S : \A y \in S : x <= y

\* _parse_preferred_time(raw, tz_name) at the instant now (hours, UTC)
_parse_preferred_time(raw, tz_name, now) ==
    LET text    == strip(raw)
        off     == _resolve_tz(tz_name)
        lowered == lower(text)
        hits    == RelativeHits(lowered)
    IN  IF text = "" THEN NoTime
        ELSE IF hits # {}
        THEN LET entry     == _RELATIVE_TIME_MAP[Min(hits)]
                 base_day  == DayOf(now + off) + entry[2]
                 remaining == strip(remove_all(lowered, entry[1]))
                 parsed    == dt_parse(remaining, DayOf(now + off))
                 hour      == IF remaining # "" /\ parsed.ok THEN parsed.hour ELSE 10
             IN  base_day * 24 + hour - off
        ELSE LET parsed == dt_parse(text, DayOf(now + off))
             IN  IF parsed.ok THEN parsed.day * 24 + parsed.hour - off ELSE NoTime

(***************************************************************************)
(*                    Conversation state (per session)                     *)
(***************************************************************************)
WELCOME == "welcome"

COLLECT_NAME == "collect_name"

COLLECT_EMAIL == "collect_email"

COLLECT_SYMPTOMS == "collect_symptoms"

COLLECT_HISTORY == "collect_history"

COLLECT_TIMING == "collect_timing"

CONFIRM_SUMMARY == "confirm_summary"

CONFIRM_APPOINTMENT == "confirm_appointment"

SCHEDULED == "scheduled"

FOLLOW_UP == "follow_up"

COMPLETED == "completed"

EMERGENCY_ESCALATED == "emergency_escalated"

\* named by triage.py:229, 364, 368; declared by the specification (section 3)
CONFIRM_IDENTITY == "confirm_identity"

ConversationStage ==
    { WELCOME, CONFIRM_IDENTITY, COLLECT_NAME, COLLECT_EMAIL, COLLECT_SYMPTOMS,
      COLLECT_HISTORY, COLLECT_TIMING, CONFIRM_SUMMARY, CONFIRM_APPOINTMENT,
      SCHEDULED, FOLLOW_UP, COMPLETED, EMERGENCY_ESCALATED }

\* IntakeHistory.add_message's max_history
max_history == 20

\* minutes of inactivity a session survives
SESSION_TTL_MINUTES == 90

\* The field triage.py:341-342, 405 reads and writes; declared by the
\* specification (section 3, IntakeHistory: "patient timezone")
TimezoneField == [ patient_timezone |-> NoValue ]

\* IntakeHistory(), every field at its default.  appointment_id 0 is None.
IntakeHistory ==
    [ patient_name             |-> NoValue,
      patient_email            |-> NoValue,
      symptom_overview         |-> NoValue,
      symptom_history          |-> NoValue,
      preferred_time_utc       |-> NoTime,
      locale_preference        |-> NoValue,
      emergency_flag           |-> FALSE,
      appointment_id           |-> 0,
      appointment_confirmed_at |-> NoTime,
      notes                    |-> << >>,
      education_shared         |-> FALSE,
      message_history          |-> << >> ]

\* ConversationState(session_id) built at minute now: a fresh state at
\* WELCOME.  The state and its intake are one record here; times are minutes
\* since the service started.
ConversationState(now) ==
    [ stage |-> WELCOME, created_at |-> now, updated_at |-> now ]
    @@ IntakeHistory @@ TimezoneField

NewState == ConversationState(0)

\* ConversationState.touch
touch(state, now) == [ state EXCEPT !.updated_at = now ]

\* the columns _state_to_row writes (session_id aside)
RowColumns ==
    DOMAIN ([ stage |-> WELCOME, created_at |-> 0, updated_at |-> 0 ]
            @@ IntakeHistory)

_state_to_row(state) == [ c \in RowColumns |-> state[c] ]

\* _row_to_state: IntakeHistory(...) built from the row's columns; a field
\* that is no column keeps its default
_row_to_state(row) == row @@ TimezoneField

\* Python truthiness of an optional string
Truthy(v) == v # NoValue /\ v # ""

\* a slip: the entries kept are the oldest ones
add_message_first(state, role, content) ==
    LET appended == Append(state.message_history,
                           [ role |-> role, content |-> content ])
    IN  [ state EXCEPT !.message_history =
            IF Len(appended) > max_history
            THEN SubSeq(appended, 1, max_history)
            ELSE appended ]

\* IntakeHistory.add_message
add_message(state, role, content) ==
    LET appended == Append(state.message_history,
                           [ role |-> role, content |-> content ])
    IN  [ state EXCEPT !.message_history =
            IF Len(appended) > max_history
            THEN SubSeq(appended, Len(appended) - max_history + 1, Len(appended))
            ELSE appended ]

add_note(state, note) == [ state EXCEPT !.notes = Append(@, note) ]

(***************************************************************************)
(*        TriageConversationEngine.process_message: the stage machine      *)
(* Each stage's branch is an operator from the fetched state and the       *)
(* stripped text to the mutated state and the should_schedule flag.        *)
(***************************************************************************)
Quiet(state) == [ state |-> state, should_schedule |-> FALSE ]

at_welcome(state) ==
    Quiet([ state EXCEPT !.stage =
              IF Truthy(state.patient_name) /\ Truthy(state.patient_email)
              THEN CONFIRM_IDENTITY
              ELSE COLLECT_SYMPTOMS ])

\* a slip: a rejected identity is cleared and the summary comes next
at_confirm_identity_skipping(state, text) ==
    IF _has_word(text, AFFIRMATIVE_WORDS)
    THEN Quiet([ state EXCEPT !.stage = COLLECT_SYMPTOMS ])
    ELSE IF _has_word(text, NEGATIVE_WORDS)
    THEN Quiet([ state EXCEPT !.patient_name = NoValue,
                              !.patient_email = NoValue,
                              !.stage = CONFIRM_SUMMARY ])
    ELSE Quiet(state)

at_confirm_identity(state, text) ==
    IF _has_word(text, AFFIRMATIVE_WORDS)
    THEN Quiet([ state EXCEPT !.stage = COLLECT_SYMPTOMS ])
    ELSE IF _has_word(text, NEGATIVE_WORDS)
    THEN Quiet([ state EXCEPT !.patient_name = NoValue,
                              !.patient_email = NoValue,
                              !.stage = COLLECT_SYMPTOMS ])
    ELSE Quiet(state)

\* a slip: the stage advances, the overview is not kept
at_collect_symptoms_unsaved(state, text) ==
    Quiet([ add_note(state, "symptom_overview: " \o text)
              EXCEPT !.stage = COLLECT_HISTORY ])

at_collect_symptoms(state, text) ==
    Quiet([ add_note(state, "symptom_overview: " \o text)
              EXCEPT !.symptom_overview = text,
                     !.stage = COLLECT_HISTORY ])

\* a slip: the history is kept and asked for again
at_collect_history_asking_more(state, text) ==
    LET existing == IF Truthy(state.symptom_history) THEN state.symptom_history ELSE ""
        combined == IF existing # "" THEN strip(existing \o "\n" \o text) ELSE text
    IN  Quiet([ add_note(state, "symptom_history: " \o text)
                  EXCEPT !.symptom_history = combined ])

at_collect_history(state, text) ==
    LET existing == IF Truthy(state.symptom_history) THEN state.symptom_history ELSE ""
        combined == IF existing # "" THEN strip(existing \o "\n" \o text) ELSE text
    IN  Quiet([ add_note(state, "symptom_history: " \o text)
                  EXCEPT !.symptom_history = combined,
                         !.stage = COLLECT_NAME ])

at_collect_name(state, text) ==
    Quiet([ add_note(state, "name_raw: " \o text)
              EXCEPT !.patient_name = _sanitize_name(text),
                     !.stage = COLLECT_EMAIL ])

\* a slip: the order of the ConversationStage enum, where the symptoms
\* follow the email
at_collect_email_enum_order(state, text) ==
    IF validate_email(text) # NoValue
    THEN Quiet([ add_note(state, "email_raw: " \o text)
                   EXCEPT !.patient_email = validate_email(text),
                          !.stage = COLLECT_SYMPTOMS ])
    ELSE Quiet(state)

\* a slip: the stage is advanced after the try block, valid or not
at_collect_email_unchecked(state, text) ==
    IF validate_email(text) # NoValue
    THEN Quiet([ add_note(state, "email_raw: " \o text)
                   EXCEPT !.patient_email = validate_email(text),
                          !.stage = COLLECT_TIMING ])
    ELSE Quiet([ state EXCEPT !.stage = COLLECT_TIMING ])

at_collect_email(state, text) ==
    IF validate_email(text) # NoValue
    THEN Quiet([ add_note(state, "email_raw: " \o text)
                   EXCEPT !.patient_email = validate_email(text),
                          !.stage = COLLECT_TIMING ])
    ELSE Quiet(state)

\* a slip: the parse result is assigned before it is tested
at_collect_timing_assigned_first(state, text, now) ==
    LET appointment_dt == _parse_preferred_time(text, state.patient_timezone, now)
    IN  IF appointment_dt # NoTime
        THEN Quiet([ add_note(state, "preferred_time_input: " \o text)
                       EXCEPT !.preferred_time_utc = appointment_dt,
                              !.stage = CONFIRM_SUMMARY ])
        ELSE Quiet([ state EXCEPT !.preferred_time_utc = appointment_dt ])

at_collect_timing(state, text, now) ==
    LET appointment_dt == _parse_preferred_time(text, state.patient_timezone, now)
    IN  IF appointment_dt # NoTime
        THEN Quiet([ add_note(state, "preferred_time_input: " \o text)
                       EXCEPT !.preferred_time_utc = appointment_dt,
                              !.stage = CONFIRM_SUMMARY ])
        ELSE Quiet(state)

\* a slip: a reply that is neither yes nor no nor a correction moves on to
\* the booking question
at_confirm_summary_moving_on(state, text) ==
    LET noted == add_note(state, "summary_feedback: " \o text)
        low   == lower(text)
    IN  IF _has_word(text, AFFIRMATIVE_WORDS)
        THEN [ state |-> [ noted EXCEPT !.stage = SCHEDULED ],
               should_schedule |-> (state.appointment_id = 0) ]
        ELSE IF _has_word(text, NEGATIVE_WORDS)
        THEN Quiet([ noted EXCEPT !.stage = FOLLOW_UP ])
        ELSE IF Contains(low, "name") \/ Contains(low, "nombre")
        THEN Quiet([ noted EXCEPT !.stage = COLLECT_NAME ])
        ELSE IF Contains(low, "email") \/ Contains(low, "correo")
        THEN Quiet([ noted EXCEPT !.stage = COLLECT_EMAIL,
                                  !.patient_email = NoValue ])
        ELSE IF \E w \in { "time", "date", "hora", "fecha" } : Contains(low, w)
        THEN Quiet([ noted EXCEPT !.stage = COLLECT_TIMING,
                                  !.preferred_time_utc = NoTime ])
        ELSE Quiet([ noted EXCEPT !.stage = CONFIRM_APPOINTMENT ])

at_confirm_summary(state, text) ==
    LET noted == add_note(state, "summary_feedback: " \o text)
        low   == lower(text)
    IN  IF _has_word(text, AFFIRMATIVE_WORDS)
        THEN [ state |-> [ noted EXCEPT !.stage = SCHEDULED ],
               should_schedule |-> (state.appointment_id = 0) ]
        ELSE IF _has_word(text, NEGATIVE_WORDS)
        THEN Quiet([ noted EXCEPT !.stage = FOLLOW_UP ])
        ELSE IF Contains(low, "name") \/ Contains(low, "nombre")
        THEN Quiet([ noted EXCEPT !.stage = COLLECT_NAME ])
        ELSE IF Contains(low, "email") \/ Contains(low, "correo")
        THEN Quiet([ noted EXCEPT !.stage = COLLECT_EMAIL,
                                  !.patient_email = NoValue ])
        ELSE IF \E w \in { "time", "date", "hora", "fecha" } : Contains(low, w)
        THEN Quiet([ noted EXCEPT !.stage = COLLECT_TIMING,
                                  !.preferred_time_utc = NoTime ])
        ELSE Quiet(noted)

at_confirm_appointment(state, text) ==
    LET noted == add_note(state, "appointment_decision: " \o text)
    IN  IF _has_word(text, AFFIRMATIVE_WORDS)
        THEN [ state |-> [ noted EXCEPT !.stage = SCHEDULED ],
               should_schedule |-> (state.appointment_id = 0) ]
        ELSE IF _has_word(text, NEGATIVE_WORDS)
        THEN Quiet([ noted EXCEPT !.stage = FOLLOW_UP ])
        ELSE Quiet(noted)

\* a slip: the stages after the booking question answer it again
stage_machine_reasking(state, text, now) ==
    CASE state.stage = WELCOME             -> at_welcome(state)
      [] state.stage = CONFIRM_IDENTITY    -> at_confirm_identity(state, text)
      [] state.stage = COLLECT_SYMPTOMS    -> at_collect_symptoms(state, text)
      [] state.stage = COLLECT_HISTORY     -> at_collect_history(state, text)
      [] state.stage = COLLECT_NAME        -> at_collect_name(state, text)
      [] state.stage = COLLECT_EMAIL       -> at_collect_email(state, text)
      [] state.stage = COLLECT_TIMING      -> at_collect_timing(state, text, now)
      [] state.stage = CONFIRM_SUMMARY     -> at_confirm_summary(state, text)
      [] OTHER                             -> at_confirm_appointment(state, text)

\* triage.py:362-444, the if/elif chain on state.stage
stage_machine(state, text, now) ==
    CASE state.stage = WELCOME             -> at_welcome(state)
      [] state.stage = CONFIRM_IDENTITY    -> at_confirm_identity(state, text)
      [] state.stage = COLLECT_SYMPTOMS    -> at_collect_symptoms(state, text)
      [] state.stage = COLLECT_HISTORY     -> at_collect_history(state, text)
      [] state.stage = COLLECT_NAME        -> at_collect_name(state, text)
      [] state.stage = COLLECT_EMAIL       -> at_collect_email(state, text)
      [] state.stage = COLLECT_TIMING      -> at_collect_timing(state, text, now)
      [] state.stage = CONFIRM_SUMMARY     -> at_confirm_summary(state, text)
      [] state.stage = CONFIRM_APPOINTMENT -> at_confirm_appointment(state, text)
      [] OTHER                             -> Quiet(state)

\* triage.py:294-299: identity from the authenticated caller, at WELCOME only
prefill_identity(state, patient_name, patient_email) ==
    IF /\ state.stage = WELCOME
       /\ Truthy(patient_name) /\ Truthy(patient_email)
       /\ ~Truthy(state.patient_name) /\ ~Truthy(state.patient_email)
    THEN [ add_note(state, "identity_from_auth: " \o patient_name
                           \o " <" \o patient_email \o ">")
             EXCEPT !.patient_name = _sanitize_name(patient_name),
                    !.patient_email = patient_email ]
    ELSE state

\* triage.py:311-315: the emergency override
escalate(state, text) ==
    [ add_note(state, "emergency_flagged: " \o text)
        EXCEPT !.emergency_flag = TRUE,
               !.stage = EMERGENCY_ESCALATED ]

\* triage.py:340-356: the patient's timezone and language, each set once
remember_timezone(state, timezone) ==
    IF Truthy(timezone) /\ ~Truthy(state.patient_timezone)
    THEN [ state EXCEPT !.patient_timezone = timezone ]
    ELSE state

\* a slip: the hint of the turn is taken whenever one is given
remember_locale_latest(state, text, locale) ==
    IF Truthy(locale) THEN [ state EXCEPT !.locale_preference = locale ]
    ELSE IF Truthy(state.locale_preference) THEN state
    ELSE IF _has_word(text, SPANISH_MARKERS)
    THEN [ state EXCEPT !.locale_preference = "es" ]
    ELSE state

remember_locale(state, text, locale) ==
    IF Truthy(state.locale_preference) THEN state
    ELSE IF Truthy(locale) THEN [ state EXCEPT !.locale_preference = locale ]
    ELSE IF _has_word(text, SPANISH_MARKERS)
    THEN [ state EXCEPT !.locale_preference = "es" ]
    ELSE state

(***************************************************************************)
(* process_message from begin_or_resume's result up to the await of the    *)
(* text generator (triage.py:290-315 and 340-444).  kind is "empty" (the   *)
(* early return of line 301), "emergency" or "normal".                     *)
(***************************************************************************)
process_message(fetched, message, call, now) ==
    LET text   == strip(message)
        filled == prefill_identity(fetched, call.patient_name, call.patient_email)
    IN  IF text = ""
        THEN [ kind |-> "empty" ] @@ Quiet(filled)
        ELSE IF _detect_emergency(text)
        THEN [ kind |-> "emergency" ] @@ Quiet(escalate(filled, text))
        ELSE [ kind |-> "normal" ]
             @@ stage_machine(
                    remember_locale(remember_timezone(filled, call.timezone),
                                    text, call.locale),
                    text, now)

(***************************************************************************)
(*                      Replies (triage.py:198-279, 317-328)               *)
(* The wording is abridged; what a reply interpolates is kept.             *)
(***************************************************************************)
Shown(v) == IF Truthy(v) THEN v ELSE "-"

build_summary(state) ==
    "Name: " \o Shown(state.patient_name)
    \o "; Contact email: " \o Shown(state.patient_email)
    \o "; Primary concern: " \o Shown(state.symptom_overview)
    \o "; Symptom details: " \o Shown(state.symptom_history)
    \o ( IF state.preferred_time_utc # NoTime
         THEN "; Preferred appointment time (UTC): hour "
              \o ToString(state.preferred_time_utc)
         ELSE "" )
    \o ( IF Truthy(state.locale_preference)
         THEN "; Language preference: " \o state.locale_preference
         ELSE "" )

_fallback_response(stage, state) ==
    CASE stage = WELCOME             -> "Welcome to Medikah! What brings you in today?"
      [] stage = CONFIRM_IDENTITY    -> "Hi " \o Shown(state.patient_name) \o " ("
                                        \o Shown(state.patient_email) \o "), is this correct?"
      [] stage = COLLECT_SYMPTOMS    -> "Could you tell me a bit more about what you're experiencing?"
      [] stage = COLLECT_HISTORY     -> "When did these symptoms begin?"
      [] stage = COLLECT_NAME        -> "Could I get your name?"
      [] stage = COLLECT_EMAIL       -> "Thank you, " \o Shown(state.patient_name)
                                        \o ". What's the best email?"
      [] stage = COLLECT_TIMING      -> "When would you like to schedule your Medikah visit?"
      [] stage = CONFIRM_SUMMARY     -> "Here is what I've gathered so far: "
                                        \o build_summary(state)
                                        \o ". Does that summary look right?"
      [] stage = CONFIRM_APPOINTMENT -> "Would you like me to book your Medikah visit?"
      [] stage = SCHEDULED           -> "You're all set!"
      [] OTHER                       -> "I'm here if you have more questions."

EmergencyReply == "Your symptoms sound urgent. Please call your local emergency number."

\* AITriageResponseGenerator.generate_response: some text, or None on any failure
generate_response(up, stage) ==
    IF up THEN "(generated reply at " \o stage \o ")" ELSE NoValue

\* a slip: outside the emergency path the generated reply is used untested
reply_for_untested(kind, generated, state) ==
    IF kind = "emergency" /\ ~Truthy(generated) THEN EmergencyReply
    ELSE generated

\* triage.py:317-328 and 454-472: the generated reply, else the canned one
reply_for(kind, generated, state) ==
    IF Truthy(generated) THEN generated
    ELSE IF kind = "emergency" THEN EmergencyReply
    ELSE _fallback_response(state.stage, state)

\* a slip: a generated reply is remembered on the intake
log_exchange_marking(state, text, reply) ==
    [ add_message(add_message(state, "user", text), "assistant", reply)
        EXCEPT !.education_shared = ( reply # _fallback_response(state.stage, state) ) ]

\* triage.py:329-330 and 475-476: the exchange goes to the message history
log_exchange(state, text, reply) ==
    add_message(add_message(state, "user", text), "assistant", reply)

(***************************************************************************)
(*                    finalize_chat_scheduling (main.py)                   *)
(***************************************************************************)
\* main.py:379-395
missing(state) ==
    ( IF Truthy(state.patient_name) THEN <<>> ELSE << "name" >> )
    \o ( IF Truthy(state.patient_email) THEN <<>> ELSE << "email" >> )
    \o ( IF state.preferred_time_utc # NoTime THEN <<>> ELSE << "preferred time" >> )

\* APPOINTMENT_HASH_KEY of the deployment
SecretKey == "k3y"

HexDigits == "0123456789abcdef"

CodeAlphabet == LOWER \o UPPER \o "0123456789@._-+ "

\* the digest state after the characters of text
RECURSIVE absorb(_, _)
absorb(h, text) ==
    IF text = "" THEN h
    ELSE absorb((h * 31 + IndexIn(CodeAlphabet, Ch(text, 1)) + 1) % 65536,
                Tail_(text))

\* hmac.new(key, message, sha256).hexdigest(): a keyed checksum stands for
\* HMAC-SHA256; it reads the key and every character of the message and
\* gives hexadecimal digits
hexdigest(key, message) ==
    LET n == absorb(absorb(0, key), message)
    IN  Ch(HexDigits, n \div 4096 + 1) \o Ch(HexDigits, ((n \div 256) % 16) + 1)
        \o Ch(HexDigits, ((n \div 16) % 16) + 1) \o Ch(HexDigits, (n % 16) + 1)

\* a slip: the contact is stored as it came
save_clear(store, state) ==
    Append(store, [ appointment_id       |-> Len(store) + 1,
                    patient_name         |-> state.patient_name,
                    patient_contact_hash |-> state.patient_email,
                    appointment_time     |-> state.preferred_time_utc ])

\* appointments.py:60-92, with the n-th generated id written n
save(store, state) ==
    Append(store, [ appointment_id       |-> Len(store) + 1,
                    patient_name         |-> state.patient_name,
                    patient_contact_hash |-> hexdigest(SecretKey, state.patient_email),
                    appointment_time     |-> state.preferred_time_utc ])

\* main.py:420-422
booked(state, appointment_id, now) ==
    [ state EXCEPT !.appointment_id = appointment_id,
                   !.appointment_confirmed_at = now,
                   !.stage = SCHEDULED ]

(***************************************************************************)
(*                          The service as it runs                         *)
(***************************************************************************)
\* messages of a session served one request at a time
MaxSeqTurns == 9

\* messages of a session that has had two requests in flight at a time
MaxTurns == 8

\* requests received while another request of the session is in flight
MaxOverlaps == 1

\* requests that take the lock of the in-memory store
MaxLockTasks == 3

\* messages of a long conversation: more than max_history / 2
MaxLongTurns == 12

SID == "s1"
Requests == { "r1", "r2" }

NoCaller == [ locale |-> NoValue, timezone |-> NoValue,
              patient_name |-> NoValue, patient_email |-> NoValue ]

Spanish == [ NoCaller EXCEPT !.locale = "es" ]

Eastern == [ NoCaller EXCEPT !.timezone = "America/New_York" ]

SignedIn == [ NoCaller EXCEPT !.patient_name = "ana  ruiz",
                              !.patient_email = "ana@example.com" ]

\* The scenario of the specification (section 8), sent in this order
\* whatever the service asks
Script ==
    << "I have a bad headache", "started 2 days ago, getting worse",
       "Maria Lopez", "maria@example.com", "tomorrow at 10am" >>

\* The deployments and patients explored.  chat_endpoint passes the locale
\* only; the other keyword arguments of process_message are those of a
\* caller that knows the patient.  A patient either answers what is asked
\* or sends the Script.
Deployments ==
    { [ use_db |-> TRUE,  ai_up |-> TRUE,  caller |-> NoCaller, patient |-> "answers" ],
      [ use_db |-> FALSE, ai_up |-> TRUE,  caller |-> NoCaller, patient |-> "answers" ],
      [ use_db |-> TRUE,  ai_up |-> FALSE, caller |-> Eastern,  patient |-> "answers" ],
      [ use_db |-> FALSE, ai_up |-> FALSE, caller |-> Spanish,  patient |-> "answers" ],
      [ use_db |-> TRUE,  ai_up |-> TRUE,  caller |-> SignedIn, patient |-> "answers" ],
      [ use_db |-> TRUE,  ai_up |-> TRUE,  caller |-> NoCaller, patient |-> "script" ],
      [ use_db |-> FALSE, ai_up |-> TRUE,  caller |-> NoCaller, patient |-> "english" ],
      [ use_db |-> FALSE, ai_up |-> FALSE, caller |-> Eastern,  patient |-> "dated" ],
      [ use_db |-> FALSE, ai_up |-> FALSE, caller |-> NoCaller, patient |-> "script" ] }

\* the hour of the wall clock, counted from midnight UTC of day 0
NowSamples == { 26 }

EmergencyMessage == "I have CHEST PAIN now"

\* what an answering patient types when the session is at a stage: an answer
\* to the question asked, something else, or an emergency
Answers(stage) ==
    { EmergencyMessage } \cup
    CASE stage = WELCOME          -> { "hola" }
      [] stage = CONFIRM_IDENTITY -> { "yes", "no", "who?",
                                       "no, that's not correct" }
      [] stage = COLLECT_SYMPTOMS -> { "I have a bad headache" }
      [] stage = COLLECT_HISTORY  -> { "started 2 days ago, getting worse" }
      [] stage = COLLECT_NAME     -> { " maria  lopez " }
      [] stage = COLLECT_EMAIL    -> { "Maria@Example.COM", "maria at example" }
      [] stage = COLLECT_TIMING   -> { "tomorrow at 3pm", "whenever" }
      [] stage = CONFIRM_SUMMARY  -> { "yes", "no", "the email is wrong",
                                       "my name is wrong", "another date", "hmm",
                                       "my email is wrong, please fix it" }
      [] OTHER                    -> { "yes" }

\* what a patient who answers every question as asked types
Plain(stage) ==
    CASE stage = WELCOME          -> "hola"
      [] stage = COLLECT_SYMPTOMS -> "I have a bad headache"
      [] stage = COLLECT_HISTORY  -> "started 2 days ago, getting worse"
      [] stage = COLLECT_NAME     -> " maria  lopez "
      [] stage = COLLECT_EMAIL    -> "Maria@Example.COM"
      [] stage = COLLECT_TIMING   -> "tomorrow at 3pm"
      [] OTHER                    -> "yes"

Inputs(patient, stage, sent) ==
    IF patient = "answers" THEN Answers(stage)
    ELSE IF patient = "plain" THEN { Plain(stage) }
    ELSE IF patient = "long" THEN { Plain(stage), EmergencyMessage }
    ELSE IF patient = "dated"
    THEN CASE stage = COLLECT_TIMING -> { "tomorrow", "Tomorrow at 3pm",
                                          "in two days at 9am",
                                          "tomorrow, February 5" }
           [] OTHER                  -> { Plain(stage) }
    ELSE IF patient = "english"
    THEN CASE stage = WELCOME                   -> { "hello" }
           [] stage = CONFIRM_SUMMARY           -> { "yes", "no" }
           [] stage \in { SCHEDULED, FOLLOW_UP } -> { "muchas gracias" }
           [] OTHER                             -> { Plain(stage) }
    ELSE IF patient = "urgent"
    THEN { IF stage = COLLECT_HISTORY THEN EmergencyMessage ELSE Plain(stage) }
    ELSE IF sent < Len(Script) THEN { Script[sent + 1] }
    ELSE { "yes" }

VARIABLES
    use_db,            \* ConversationStateStore._use_db
    ai_up,             \* whether the text generator answers
    caller,            \* the keyword arguments of every process_message call
    patient,           \* how the patient chooses what to type
    clock,             \* datetime.now when the service started, in hours
    time,              \* minutes since the service started
    db_up,             \* whether the database answers
    accessed,          \* the minute of the last call of the session store
    sessions,          \* _memory_store, or the conversation_sessions table
    appointment_store, \* the appointments saved
    req,               \* the chat requests in flight: where each is, the
                       \* state it fetched (before) and left (after), and
                       \* whether it came after an emergency turn (late)
    turns,             \* messages received
    overlaps,          \* messages received while a request was in flight
    signals,           \* TriageResults returned with should_schedule
    escalated,         \* an emergency turn has returned
    raced,             \* an emergency turn ran while a booking was waiting
    result,            \* the last TriageResult returned, with its turn
    transcript,        \* every message given to add_message, in order
                       \* (written down for the long conversations only)
    response,          \* what the last finished /chat request answered
    lock,              \* who holds ConversationStateStore._lock, or Free
    at,                \* where each task stands between the store's blocks
                       \* and its awaits
    both,              \* two services given the same calls at the same
                       \* times: the _memory_store of one, the
                       \* conversation_sessions table of the other, and
                       \* what each returned last
    batch,             \* send_bulk in progress: its tasks and what its
                       \* caller has got from it
    reports            \* the batches done: who failed, and what the caller got

vars == << use_db, ai_up, caller, patient, clock, time, db_up, accessed,
           sessions, appointment_store, req, turns, overlaps, signals,
           escalated, raced, result, transcript, response, lock, at, both,
           batch, reports >>

\* the lock of the in-memory session store, looked at on its own
locking == << lock, at >>

\* nobody holds the lock
Free == 0

\* the requests that may be served at once by the in-memory store
Tasks == 1..MaxLockTasks

\* the notification batches, looked at on their own
mail == << batch, reports >>

\* the messages of a batch: to the patient and to the doctor
BatchSize == 2

Recipients == 1..BatchSize

NoBatch == [ tasks |-> [ k \in Recipients |-> "none" ],
            outcome |-> [ kind |-> "none", of |-> 0 ] ]

\* what construction fixes for the life of the process
deployment == << use_db, ai_up, caller, patient, clock >>

Idle == [ pc |-> "idle", text |-> "", kind |-> "", state |-> NewState,
          before |-> NewState, after |-> NewState, late |-> FALSE,
          should_schedule |-> FALSE, appointment_id |-> 0 ]

NoResult == [ text |-> "", kind |-> "", reply |-> "",
              before |-> NewState, after |-> NewState,
              stage |-> WELCOME, should_schedule |-> FALSE,
              emergency_noted |-> FALSE ]

NoResponse == [ status |-> 0, detail |-> "", appointment_confirmed |-> FALSE,
                appointment_id |-> 0 ]

\* main.py:246-250
StoreFailure == [ status |-> 500, detail |-> "Unable to store the appointment." ]

\* a slip: a notification failure answered like a failure to store
NotifyFailure_as_store ==
    [ status |-> 500, detail |-> "Unable to store the appointment." ]

\* main.py:356-360
NotifyFailure == [ status |-> 502,
                   detail |-> "Failed to deliver appointment notifications." ]

\* what a caller sees of a state it is handed: the stage and the intake
View(state) ==
    [ field \in DOMAIN state \ { "created_at", "updated_at" } |-> state[field] ]

\* no call made yet
Unasked == [ found |-> FALSE, state |-> View(NewState) ]

\* the service just constructed, as one of the given deployments
Started(deployments) ==
    /\ \E d \in deployments :
          /\ use_db = d.use_db
          /\ ai_up = d.ai_up
          /\ caller = d.caller
          /\ patient = d.patient
    /\ clock \in NowSamples
    /\ time = 0
    /\ db_up = TRUE
    /\ accessed = 0
    /\ sessions = << >>
    /\ appointment_store = << >>
    /\ req = [ r \in Requests |-> Idle ]
    /\ turns = 0
    /\ overlaps = 0
    /\ signals = 0
    /\ escalated = FALSE
    /\ raced = FALSE
    /\ result = NoResult
    /\ transcript = << >>
    /\ response = NoResponse
    /\ lock = Free
    /\ at = [ t \in Tasks |-> "idle" ]
    /\ both = [ memory |-> << >>, table |-> << >>,
                returned |-> [ memory |-> Unasked, table |-> Unasked ] ]
    /\ batch = NoBatch
    /\ reports = << >>

Init == Started(Deployments)

\* datetime.now, in hours
Now == clock + (time \div 60)

\* a slip: the session's age is tested, not its idle time
expired_by_age(state, now) == now - state.created_at > SESSION_TTL_MINUTES

\* the test of _prune and of get: idle for longer than the TTL
expired(state, now) == now - state.updated_at > SESSION_TTL_MINUTES

\* ConversationStateStore._prune
_prune(store, now) ==
    IF SID \in DOMAIN store /\ expired(store[SID], now) THEN << >> ELSE store

\* a slip: only the in-memory store enforces the TTL
found_unexpiring(store, now) ==
    IF use_db
    THEN db_up /\ SID \in DOMAIN store
    ELSE SID \in DOMAIN _prune(store, now)

\* ConversationStateStore.get: whether a state comes back.  A failed read
\* is logged and answered with None.
found(store, now) ==
    IF use_db
    THEN db_up /\ SID \in DOMAIN store /\ ~expired(store[SID], now)
    ELSE SID \in DOMAIN _prune(store, now)

\* ConversationStateStore.get: the state that comes back, touched: the shared
\* object, or a fresh copy of the row
get(store, now) ==
    touch(IF use_db THEN _row_to_state(store[SID]) ELSE store[SID], now)

\* ConversationStateStore.get: the store it leaves
got(store, now) ==
    IF use_db
    THEN IF found(store, now)
         THEN (SID :> [ store[SID] EXCEPT !.updated_at = now ])
         ELSE store
    ELSE IF found(store, now)
         THEN (SID :> touch(store[SID], now))
         ELSE _prune(store, now)

\* ConversationStateStore.update: a failed upsert is logged and dropped
update(store, state, now) ==
    IF use_db
    THEN IF db_up THEN (SID :> _state_to_row(touch(state, now))) ELSE store
    ELSE (SID :> touch(state, now))

\* ConversationStateStore.create: the store it leaves; a failed upsert is
\* logged and dropped
create(store, now) ==
    IF use_db
    THEN IF db_up THEN (SID :> _state_to_row(ConversationState(now))) ELSE store
    ELSE (SID :> ConversationState(now))

\* ConversationStateStore.get_or_create: the state handed to the engine and
\* the store left behind
get_or_create(store, now) ==
    IF found(store, now)
    THEN [ state |-> get(store, now), store |-> got(store, now) ]
    ELSE [ state |-> ConversationState(now),
           store |-> create(got(store, now), now) ]

\* the state object a request holds: its own copy, or the shared object
Held(r) == IF use_db THEN req[r].state ELSE sessions[SID]

StoredStage == IF SID \in DOMAIN sessions THEN sessions[SID].stage ELSE WELCOME

Overlapping == \E q \in Requests : req[q].pc # "idle"

\* a new request takes the first free slot
FreeSlot(r) ==
    /\ req[r].pc = "idle"
    /\ \A q \in Requests : (q = "r1" /\ r = "r2") => req[q].pc # "idle"

(***************************************************************************)
(* chat_endpoint up to the await inside process_message: the session is    *)
(* fetched or created, the message is run through the override and the     *)
(* stage machine, and the request waits for the text generator holding     *)
(* the state (main.py:509-516, triage.py:289-319 and 340-460).             *)
(***************************************************************************)
Receive(r, message) ==
    LET begun   == get_or_create(sessions, time)
        fetched == begun.state
        out     == process_message(fetched, message, caller, Now)
    IN  /\ FreeSlot(r)
        /\ turns < ( IF patient = "long" THEN MaxLongTurns
                     ELSE IF Overlapping \/ overlaps > 0 THEN MaxTurns
                     ELSE MaxSeqTurns )
        /\ Overlapping => overlaps < MaxOverlaps
        /\ sessions' = IF use_db THEN begun.store ELSE (SID :> out.state)
        /\ req' = [ req EXCEPT ![r] =
                      [ pc              |-> "ai",
                        text            |-> strip(message),
                        kind            |-> out.kind,
                        state           |-> IF use_db THEN out.state ELSE NewState,
                        before          |-> fetched,
                        after           |-> out.state,
                        late            |-> escalated,
                        should_schedule |-> out.should_schedule,
                        appointment_id  |-> 0 ] ]
        /\ turns' = turns + 1
        /\ overlaps' = overlaps + ( IF Overlapping THEN 1 ELSE 0 )
        /\ raced' = ( raced \/ ( /\ out.kind = "emergency"
                                 /\ \E q \in Requests : req[q].pc = "notify" ) )
        /\ accessed' = time
        /\ UNCHANGED << deployment, locking, both, mail, time, db_up, appointment_store, signals,
                        escalated, result, transcript, response >>

\* a slip: a failed insert is logged and the booking goes on
after_save_swallowed(request, state, saved, appointment_id) ==
    [ request EXCEPT !.pc = "notify",
                     !.state = IF use_db THEN state ELSE NewState,
                     !.appointment_id = appointment_id ]

\* _perform_scheduling, main.py:240-250: the request after
\* appointment_store.save: on to the notifications holding the state and the
\* new appointment's id, or ended by the HTTPException
after_save(request, state, saved, appointment_id) ==
    IF saved
    THEN [ request EXCEPT !.pc = "notify",
                          !.state = IF use_db THEN state ELSE NewState,
                          !.appointment_id = appointment_id ]
    ELSE Idle

(***************************************************************************)
(* The text generator has answered or failed: the reply is chosen, the     *)
(* exchange is logged, the state is persisted and the TriageResult         *)
(* returned (triage.py:322-338, 463-488).  chat_endpoint then fetches the  *)
(* session again and, on should_schedule, enters                            *)
(* finalize_chat_scheduling, which saves the appointment (saved tells      *)
(* whether the insert went through) and waits for the notifications        *)
(* (main.py:528-533, 378-414, 240-250, 352-353).  Without a booking the    *)
(* request is answered here (main.py:538-564).                             *)
(***************************************************************************)
Respond(r, saved) ==
    LET held    == Held(r)
        reply   == reply_for(req[r].kind,
                             generate_response(ai_up, held.stage), held)
        logged  == log_exchange(held, req[r].text, reply)
        stored  == update(sessions, logged, time)
        present == found(stored, time)
        state   == get(stored, time)
        booking == req[r].should_schedule /\ present /\ missing(state) = << >>
        confirmed ==
            IF present /\ state.appointment_id # 0 /\ logged.stage = SCHEDULED
            THEN TRUE
            ELSE IF req[r].should_schedule /\ present THEN FALSE
            ELSE logged.appointment_id # 0
    IN  /\ req[r].pc = "ai"
        /\ ~saved => (booking /\ use_db)
        /\ sessions' = stored
        /\ result' = [ text            |-> req[r].text,
                       kind            |-> req[r].kind,
                       reply           |-> reply,
                       before          |-> req[r].before,
                       after           |-> req[r].after,
                       stage           |-> logged.stage,
                       should_schedule |-> req[r].should_schedule,
                       emergency_noted |-> ( req[r].kind = "emergency"
                                             \/ logged.emergency_flag ) ]
        /\ transcript' =
              IF patient = "long"
              THEN transcript \o << [ role |-> "user", content |-> req[r].text ],
                                    [ role |-> "assistant", content |-> reply ] >>
              ELSE transcript
        /\ signals' = signals + ( IF req[r].should_schedule THEN 1 ELSE 0 )
        /\ escalated' = ( escalated \/ req[r].kind = "emergency" )
        /\ appointment_store' = IF booking /\ saved
                                THEN save(appointment_store, state)
                                ELSE appointment_store
        /\ req' = [ req EXCEPT ![r] =
                      IF booking
                      THEN after_save(@, state, saved, Len(appointment_store) + 1)
                      ELSE Idle ]
        /\ response' =
              IF ~booking
              THEN [ status |-> 200, detail |-> "",
                     appointment_confirmed |-> confirmed, appointment_id |-> 0 ]
              ELSE IF ~saved
              THEN StoreFailure @@ [ appointment_confirmed |-> FALSE,
                                     appointment_id |-> 0 ]
              ELSE response
        /\ accessed' = time
        /\ UNCHANGED << deployment, locking, both, mail, time, db_up, turns, overlaps, raced >>

(***************************************************************************)
(* send_bulk has returned or raised: on success finalize_chat_scheduling   *)
(* records the appointment on the state it holds and persists it           *)
(* (main.py:354-372, 420-423) and the request is answered with the         *)
(* appointment confirmed; on failure the request ends with a 502.          *)
(***************************************************************************)
Notified(r, delivered) ==
    /\ req[r].pc = "notify"
    /\ sessions' = IF delivered
                   THEN update(sessions,
                               booked(Held(r), req[r].appointment_id, Now), time)
                   ELSE sessions
    /\ response' =
          IF delivered
          THEN [ status |-> 200, detail |-> "", appointment_confirmed |-> TRUE,
                 appointment_id |-> req[r].appointment_id ]
          ELSE NotifyFailure @@ [ appointment_confirmed |-> FALSE,
                                  appointment_id |-> req[r].appointment_id ]
    /\ req' = [ req EXCEPT ![r] = Idle ]
    /\ accessed' = IF delivered THEN time ELSE accessed
    /\ UNCHANGED << deployment, locking, both, mail, time, db_up, appointment_store, turns, overlaps,
                    signals, escalated, raced, result, transcript >>

\* the service with every database call going through
Next ==
    \E r \in Requests :
        \/ \E message \in Inputs(patient, StoredStage, turns) : Receive(r, message)
        \/ Respond(r, TRUE)
        \/ \E delivered \in BOOLEAN : Notified(r, delivered)

Spec == Init /\ [][Next]_vars

(***************************************************************************)
(*                     Sessions left idle: the TTL                         *)
(* A patient who answers every question as asked, with pauses between the  *)
(* messages.                                                               *)
(* A request is answered within the minute, so the wall clock moves only   *)
(* while no request is in flight.                                          *)
(***************************************************************************)
\* messages of a run with pauses
MaxTtlTurns == 8

\* minutes of a run with pauses
MaxMinutes == 138

\* a pause: half the TTL, or a minute more
Pauses == { SESSION_TTL_MINUTES \div 2, SESSION_TTL_MINUTES \div 2 + 1 }

TtlDeployments ==
    { [ use_db |-> TRUE,  ai_up |-> FALSE, caller |-> NoCaller, patient |-> "plain" ],
      [ use_db |-> FALSE, ai_up |-> FALSE, caller |-> NoCaller, patient |-> "plain" ] }

InitTtl == Started(TtlDeployments)

\* the wall clock moves on
Tick(minutes) ==
    /\ ~Overlapping
    /\ time + minutes <= MaxMinutes
    /\ time' = time + minutes
    /\ UNCHANGED << deployment, locking, both, mail, db_up, accessed, sessions, appointment_store,
                    req, turns, overlaps, signals, escalated, raced, result,
                    transcript, response >>

NextTtl ==
    \/ \E minutes \in Pauses : Tick(minutes)
    \/ \E r \in Requests :
          \/ /\ turns < MaxTtlTurns
             /\ ~Overlapping
             /\ \E message \in Inputs(patient, StoredStage, turns) :
                   Receive(r, message)
          \/ Respond(r, TRUE)
          \/ \E delivered \in BOOLEAN : Notified(r, delivered)

SpecTtl == InitTtl /\ [][NextTtl]_vars

(***************************************************************************)
(*                     The database failing and recovering                 *)
(* A patient who answers every question as asked, against a database that  *)
(* may stop answering and start again between any two steps, and whose     *)
(* insert of an appointment may fail on its own.                           *)
(***************************************************************************)
\* messages of a run with failures
MaxFaultTurns == 9

FaultDeployments ==
    { [ use_db |-> TRUE, ai_up |-> FALSE, caller |-> NoCaller, patient |-> "plain" ],
      [ use_db |-> TRUE, ai_up |-> TRUE,  caller |-> NoCaller, patient |-> "urgent" ],
      [ use_db |-> TRUE, ai_up |-> TRUE,  caller |-> SignedIn, patient |-> "plain" ] }

InitFaults == Started(FaultDeployments)

\* the database stops answering
Outage ==
    /\ use_db /\ db_up
    /\ db_up' = FALSE
    /\ UNCHANGED << deployment, locking, both, mail, time, accessed, sessions, appointment_store,
                    req, turns, overlaps, signals, escalated, raced, result,
                    transcript, response >>

\* the database answers again
Recover ==
    /\ use_db /\ ~db_up
    /\ db_up' = TRUE
    /\ UNCHANGED << deployment, locking, both, mail, time, accessed, sessions, appointment_store,
                    req, turns, overlaps, signals, escalated, raced, result,
                    transcript, response >>

NextFaults ==
    \/ Outage
    \/ Recover
    \/ \E r \in Requests :
          \/ /\ turns < MaxFaultTurns
             /\ ~Overlapping
             /\ \E message \in Inputs(patient, StoredStage, turns) :
                   Receive(r, message)
          \/ \E saved \in BOOLEAN : Respond(r, saved)
          \/ \E delivered \in BOOLEAN : Notified(r, delivered)

SpecFaults == InitFaults /\ [][NextFaults]_vars

(***************************************************************************)
(*                 NotificationService.send_bulk on its own                *)
(* send_bulk starts one task per message and awaits asyncio.gather of      *)
(* them: gather hands its caller the first exception a task raises, at     *)
(* once, and leaves the other tasks running; without an exception it       *)
(* returns when all are done.                                              *)
(***************************************************************************)
\* batches of a run
MaxBatches == 3

\* everything but the notification batches
chat == << time, db_up, accessed, sessions, appointment_store, req, turns,
           overlaps, signals, escalated, raced, result, transcript, response >>

NotifyDeployments ==
    { [ use_db |-> TRUE, ai_up |-> TRUE, caller |-> NoCaller, patient |-> "plain" ] }

InitNotify == Started(NotifyDeployments)

Done(tasks) == \A k \in Recipients : tasks[k] \in { "sent", "failed" }

\* notifications.py:50-59 up to the await
SendBulk ==
    /\ batch = NoBatch
    /\ Len(reports) < MaxBatches
    /\ batch' = [ tasks |-> [ k \in Recipients |-> "pending" ],
                  outcome |-> [ kind |-> "waiting", of |-> 0 ] ]
    /\ UNCHANGED << deployment, locking, both, chat, reports >>

\* _send_message returns for message k
Sent(k) ==
    LET tasks == [ batch.tasks EXCEPT ![k] = "sent" ]
    IN  /\ batch.tasks[k] = "pending"
        /\ batch' = [ tasks |-> tasks,
                      outcome |-> IF batch.outcome.kind = "waiting" /\ Done(tasks)
                                  THEN [ kind |-> "returned", of |-> 0 ]
                                  ELSE batch.outcome ]
        /\ UNCHANGED << deployment, locking, both, chat, reports >>

\* a slip: the first failure cancels the sends still under way
Failed_cancelling(k) ==
    /\ batch.tasks[k] = "pending"
    /\ batch' = [ tasks |-> [ j \in Recipients |->
                               IF j = k THEN "failed"
                               ELSE IF batch.tasks[j] = "pending" THEN "cancelled"
                               ELSE batch.tasks[j] ],
                  outcome |-> IF batch.outcome.kind = "waiting"
                              THEN [ kind |-> "raised", of |-> k ]
                              ELSE batch.outcome ]
    /\ UNCHANGED << deployment, locking, both, chat, reports >>

\* _send_message raises for message k: the first exception of a batch is
\* the one send_bulk raises
Failed(k) ==
    /\ batch.tasks[k] = "pending"
    /\ batch' = [ tasks |-> [ batch.tasks EXCEPT ![k] = "failed" ],
                  outcome |-> IF batch.outcome.kind = "waiting"
                              THEN [ kind |-> "raised", of |-> k ]
                              ELSE batch.outcome ]
    /\ UNCHANGED << deployment, locking, both, chat, reports >>

\* every task of the batch is done
Settle ==
    /\ Done(batch.tasks)
    /\ reports' = Append(reports,
                         [ failed  |-> { k \in Recipients : batch.tasks[k] = "failed" },
                           outcome |-> batch.outcome ])
    /\ batch' = NoBatch
    /\ UNCHANGED << deployment, locking, both, chat >>

NextNotify ==
    \/ SendBulk
    \/ \E k \in Recipients : Sent(k) \/ Failed(k)
    \/ Settle

SpecNotify == InitNotify /\ [][NextNotify]_vars

(***************************************************************************)
(* process_message called with a message that is empty once stripped       *)
(* (chat_endpoint answers such a message with 400 before it gets there).   *)
(* The call fetches or creates the session, takes the identity of the      *)
(* caller and returns at once: no reply is generated, nothing is logged    *)
(* and update is not called (triage.py:289-308).                           *)
(***************************************************************************)
MaxBlankTurns == 7

ReadyReply == "I'm ready when you are. Could you share a bit more so I can prepare the doctor?"

Blank(message) ==
    LET begun   == get_or_create(sessions, time)
        fetched == begun.state
        out     == process_message(fetched, message, caller, Now)
    IN  /\ out.kind = "empty"
        /\ sessions' = IF use_db THEN begun.store ELSE (SID :> out.state)
        /\ result' = [ text            |-> strip(message),
                       kind            |-> out.kind,
                       reply           |-> ReadyReply,
                       before          |-> fetched,
                       after           |-> out.state,
                       stage           |-> out.state.stage,
                       should_schedule |-> out.should_schedule,
                       emergency_noted |-> FALSE ]
        /\ accessed' = time
        /\ UNCHANGED << deployment, locking, both, mail, time, db_up, appointment_store,
                        req, turns, overlaps, signals, escalated, raced,
                        transcript, response >>

BlankDeployments ==
    { [ use_db |-> FALSE, ai_up |-> FALSE, caller |-> SignedIn, patient |-> "plain" ],
      [ use_db |-> TRUE,  ai_up |-> FALSE, caller |-> SignedIn, patient |-> "plain" ],
      [ use_db |-> FALSE, ai_up |-> TRUE,  caller |-> NoCaller, patient |-> "plain" ] }

InitBlank == Started(BlankDeployments)

NextBlank ==
    \/ \E message \in { "", "  " } : Blank(message)
    \/ \E r \in Requests :
          \/ /\ turns < MaxBlankTurns
             /\ \E message \in Inputs(patient, StoredStage, turns) :
                   Receive(r, message)
          \/ Respond(r, TRUE)
          \/ \E delivered \in BOOLEAN : Notified(r, delivered)

SpecBlank == InitBlank /\ [][NextBlank]_vars

(***************************************************************************)
(* The lock of the in-memory session store.  A request calls the store     *)
(* five times at most: get and, for a new session, create (triage.py:289), *)
(* update after the reply (triage.py:332, 479), get in chat_endpoint       *)
(* (main.py:528) and update after the booking (main.py:423).  Each call    *)
(* runs one `with self._lock` block; between them the request awaits the   *)
(* text generator (triage.py:319, 460) and send_bulk (main.py:353).        *)
(***************************************************************************)

\* the `with self._lock` block a task runs next, by where it stands
entered ==
    [ idle     |-> "get",      \* conversation_state.py:214
      fresh    |-> "create",   \* conversation_state.py:239
      generate |-> "update",   \* conversation_state.py:263, after the generator
      reply    |-> "fetch",    \* conversation_state.py:214, from main.py:528
      send     |-> "persist" ] \* conversation_state.py:263, after send_bulk

\* where a task stands once it has left a block: present tells whether get
\* returned a session, booking whether the turn asked for scheduling
left(block, present, booking) ==
    CASE block = "get"     -> IF present THEN "generate" ELSE "fresh"
      [] block = "create"  -> "generate"
      [] block = "update"  -> "reply"
      [] block = "fetch"   -> IF booking /\ present THEN "send" ELSE "idle"
      [] block = "persist" -> "idle"

\* a task enters the block of its next store call
Enter(t) ==
    /\ lock = Free
    /\ at[t] \in DOMAIN entered
    /\ lock' = t
    /\ at' = [ at EXCEPT ![t] = entered[at[t]] ]
    /\ UNCHANGED << deployment, chat, mail, both >>

\* a slip: the block is left with the lock still held
Leave_holding(t, present, booking) ==
    /\ lock = t
    /\ at' = [ at EXCEPT ![t] = left(at[t], present, booking) ]
    /\ UNCHANGED << deployment, chat, mail, both, lock >>

\* a task leaves its block: the lock is released before anything else runs
Leave(t, present, booking) ==
    /\ lock = t
    /\ lock' = Free
    /\ at' = [ at EXCEPT ![t] = left(at[t], present, booking) ]
    /\ UNCHANGED << deployment, chat, mail, both >>

\* send_bulk raises: the request ends with the 502, no store call follows
Abandon(t) ==
    /\ at[t] = "send"
    /\ at' = [ at EXCEPT ![t] = "idle" ]
    /\ UNCHANGED << deployment, chat, mail, both, lock >>

InitLock ==
    Started({ [ use_db |-> FALSE, ai_up |-> TRUE, caller |-> NoCaller,
                patient |-> "plain" ] })

NextLock ==
    \E t \in Tasks :
        \/ Enter(t)
        \/ \E present, booking \in BOOLEAN : Leave(t, present, booking)
        \/ Abandon(t)

SpecLock == InitLock /\ [][NextLock]_vars

(***************************************************************************)
(* Long conversations: one request at a time, more turns than the message  *)
(* history keeps.                                                          *)
(***************************************************************************)
LongDeployments ==
    { [ use_db |-> FALSE, ai_up |-> FALSE, caller |-> NoCaller, patient |-> "long" ],
      [ use_db |-> TRUE,  ai_up |-> TRUE,  caller |-> NoCaller, patient |-> "long" ] }

InitLong == Started(LongDeployments)

NextLong ==
    \E r \in Requests :
        \/ /\ ~Overlapping
           /\ \E message \in Inputs(patient, StoredStage, turns) :
                 Receive(r, message)
        \/ Respond(r, TRUE)
        \/ \E delivered \in BOOLEAN : Notified(r, delivered)

SpecLong == InitLong /\ [][NextLong]_vars

(***************************************************************************)
(* The patient who answers every question as asked, one message at a time, *)
(* with and without an identity known to the caller.                       *)
(***************************************************************************)
MaxIntakeTurns == 9

IntakeDeployments ==
    { [ use_db |-> db, ai_up |-> ai, caller |-> who, patient |-> "plain" ] :
        db \in BOOLEAN, ai \in BOOLEAN, who \in { NoCaller, SignedIn } }

InitIntake == Started(IntakeDeployments)

NextIntake ==
    \E r \in Requests :
       \/ /\ turns < MaxIntakeTurns
          /\ \A other \in Requests : req[other].pc = "idle"
          /\ Receive(r, Plain(StoredStage))
       \/ Respond(r, TRUE)
       \/ \E delivered \in BOOLEAN : Notified(r, delivered)

SpecIntake == InitIntake /\ [][NextIntake]_vars

(***************************************************************************)
(* The two backends of ConversationStateStore side by side: one service    *)
(* on the in-memory store and one on the database, the database answering, *)
(* given the same process_message and get calls at the same times.         *)
(***************************************************************************)
MaxTwinTurns == 4

\* ConversationStateStore.get on either backend: whether a state comes
\* back, the state, and the store left behind
get_on(db, store, now) ==
    IF db
    THEN IF SID \in DOMAIN store /\ ~expired(store[SID], now)
         THEN [ found |-> TRUE,
                state |-> touch(_row_to_state(store[SID]), now),
                store |-> (SID :> [ store[SID] EXCEPT !.updated_at = now ]) ]
         ELSE [ found |-> FALSE, state |-> NewState, store |-> store ]
    ELSE IF SID \in DOMAIN _prune(store, now)
         THEN [ found |-> TRUE,
                state |-> touch(store[SID], now),
                store |-> (SID :> touch(store[SID], now)) ]
         ELSE [ found |-> FALSE, state |-> NewState,
                store |-> _prune(store, now) ]

\* create and update on either backend: the row upserted, or the object
\* put in the dictionary
put_on(db, state) == SID :> ( IF db THEN _state_to_row(state) ELSE state )

\* get_or_create on either backend: the state handed to the engine and the
\* store left behind
begin_on(db, store, now) ==
    LET had == get_on(db, store, now)
    IN  IF had.found
        THEN [ state |-> had.state, store |-> had.store ]
        ELSE [ state |-> ConversationState(now),
               store |-> put_on(db, ConversationState(now)) ]

\* process_message from the stage machine on, on either backend: the state
\* returned and the store left behind.  The empty message returns before
\* update; the state the engine was handed is the stored object in memory
\* and a copy built from the row with the database.
end_on(db, begun, out, text, now) ==
    LET reply  == reply_for(out.kind,
                            generate_response(ai_up, out.state.stage), out.state)
        logged == touch(log_exchange(out.state, text, reply), now)
    IN  IF out.kind = "empty"
        THEN [ found |-> TRUE, state |-> out.state,
               store |-> IF db THEN begun ELSE put_on(db, out.state) ]
        ELSE [ found |-> TRUE, state |-> logged, store |-> put_on(db, logged) ]

\* one process_message call on either backend, start to end
turn_on(db, begun, message, now) ==
    end_on(db, begun.store,
           process_message(begun.state, message, caller, Now),
           strip(message), now)

\* the two stores and what the two services returned
Twin(memory, table) ==
    [ memory |-> memory.store, table |-> table.store,
      returned |-> [ memory |-> [ found |-> memory.found,
                                  state |-> View(memory.state) ],
                     table  |-> [ found |-> table.found,
                                  state |-> View(table.state) ] ] ]

TwinTurn(message) ==
    /\ turns < MaxTwinTurns
    /\ turns' = turns + 1
    /\ both' = Twin(turn_on(FALSE, begin_on(FALSE, both.memory, time), message, time),
                    turn_on(TRUE, begin_on(TRUE, both.table, time), message, time))
    /\ UNCHANGED << deployment, locking, mail, time, db_up, accessed,
                    sessions, appointment_store, req, overlaps, signals,
                    escalated, raced, result, transcript, response >>

TwinGet ==
    /\ both' = Twin(get_on(FALSE, both.memory, time),
                    get_on(TRUE, both.table, time))
    /\ UNCHANGED << deployment, locking, mail, time, db_up, accessed,
                    sessions, appointment_store, req, turns, overlaps,
                    signals, escalated, raced, result, transcript,
                    response >>

\* the stage the patient is asked about, by either service
Asked ==
    { IF SID \in DOMAIN store THEN store[SID].stage ELSE WELCOME :
        store \in { both.memory, both.table } }

TwinDeployments ==
    { [ use_db |-> FALSE, ai_up |-> ai, caller |-> who, patient |-> "plain" ] :
        ai \in BOOLEAN, who \in { NoCaller, SignedIn } }

InitTwin == Started(TwinDeployments)

NextTwin ==
    \/ \E stage \in Asked : \E message \in { Plain(stage), "  " } :
          TwinTurn(message)
    \/ TwinGet
    \/ \E minutes \in Pauses : Tick(minutes)

SpecTwin == InitTwin /\ [][NextTwin]_vars

(***************************************************************************)
(* Sessions by id.  A call names a session, or names none; the store       *)
(* keeps one entry per id, and a session that is new gets the id the       *)
(* caller gave or, without one, secrets.token_urlsafe(16).  The            *)
(* TriageResult carries state.session_id (triage.py:308, 336, 484).        *)
(***************************************************************************)
MaxIdTurns == 2

\* what secrets.token_urlsafe may return
Tokens == { "tok1", "tok2" }

\* the session_id of a request: None, empty, an id of the caller's own
\* making, or a token handed out before
Supplied == { NoValue, "", "s2", "tok1" }

\* a slip: a session that is new always gets a random id
create_state_anew(session_id, token, now) ==
    [ session_id |-> token ] @@ ConversationState(now)

\* ConversationStateStore.create: the state it builds
create_state(session_id, token, now) ==
    [ session_id |-> IF Truthy(session_id) THEN session_id ELSE token ]
    @@ ConversationState(now)

\* what is kept of a state: the object, or the row with its session_id
entry(state) ==
    IF use_db
    THEN _state_to_row(state) @@ [ session_id |-> state.session_id ]
    ELSE state

\* the in-memory store after _prune; the table keeps its rows
pruned(store, now) ==
    IF use_db
    THEN store
    ELSE [ id \in { alive \in DOMAIN store : ~expired(store[alive], now) } |-> store[id] ]

\* begin_or_resume: get_or_create(session_id), the database answering
begin_or_resume(session_id, token, store, now) ==
    IF /\ Truthy(session_id)
       /\ session_id \in DOMAIN store
       /\ ~expired(store[session_id], now)
    THEN [ resumed |-> TRUE,
           state   |-> touch(IF use_db THEN _row_to_state(store[session_id])
                                       ELSE store[session_id], now),
           store   |-> [ pruned(store, now) EXCEPT ![session_id].updated_at = now ] ]
    ELSE [ resumed |-> FALSE,
           state   |-> create_state(session_id, token, now),
           store   |-> ( create_state(session_id, token, now).session_id
                           :> entry(create_state(session_id, token, now)) )
                       @@ pruned(store, now) ]

\* process_message from the stage machine on: the exchange is logged and the
\* state kept under its own session_id, unless the text is empty
Answered(session_id, begun, out, text) ==
    LET reply  == reply_for(out.kind,
                            generate_response(ai_up, out.state.stage), out.state)
        logged == touch(log_exchange(out.state, text, reply), time)
        final  == IF out.kind = "empty" THEN out.state ELSE logged
    IN  /\ sessions' = IF out.kind = "empty" /\ use_db
                       THEN begun.store
                       ELSE ( final.session_id :> entry(final) ) @@ begun.store
        /\ result' = [ text            |-> text,
                       kind            |-> out.kind,
                       reply           |-> reply,
                       before          |-> begun.state,
                       after           |-> out.state,
                       stage           |-> final.stage,
                       should_schedule |-> out.should_schedule,
                       emergency_noted |-> FALSE,
                       session_id      |-> final.session_id,
                       supplied        |-> session_id,
                       known           |-> session_id \in DOMAIN sessions,
                       resumed         |-> begun.resumed ]
        /\ turns' = turns + 1
        /\ accessed' = time
        /\ UNCHANGED << deployment, locking, both, mail, time, db_up,
                        appointment_store, req, overlaps, signals, escalated,
                        raced, transcript, response >>

IdTurn(session_id, token, begun, message) ==
    /\ turns < MaxIdTurns
    /\ Answered(session_id, begun,
                process_message(begun.state, message, caller, Now),
                strip(message))

IdDeployments ==
    { [ use_db |-> db, ai_up |-> FALSE, caller |-> NoCaller, patient |-> "plain" ] :
        db \in BOOLEAN }

InitIds == Started(IdDeployments)

NextIds ==
    \/ \E session_id \in Supplied, token \in Tokens :
          \E message \in { "hola", "  " } :
             IdTurn(session_id, token,
                    begin_or_resume(session_id, token, sessions, time), message)
    \/ \E minutes \in Pauses : Tick(minutes)

SpecIds == InitIds /\ [][NextIds]_vars

(***************************************************************************)
(*                               Properties                                *)
(***************************************************************************)
AllIdle == \A r \in Requests : req[r].pc = "idle"

Exists == SID \in DOMAIN sessions

\* the intake fields a conversation collects
Collected(state) ==
    << state.patient_name, state.patient_email, state.symptom_overview,
       state.symptom_history, state.preferred_time_utc >>

\* C1: a turn whose message contains an emergency keyword ends, whatever the
\* stage, with stage EMERGENCY_ESCALATED and emergency_flag set, and once
\* such a turn has returned the session's emergency_flag is set in every
\* later state.
C1_EmergencySticks ==
    /\ \A r \in Requests :
          ( req[r].pc = "ai" /\ _detect_emergency(req[r].text) ) =>
             /\ req[r].after.stage = EMERGENCY_ESCALATED
             /\ req[r].after.emergency_flag
    /\ escalated => ( Exists /\ sessions[SID].emergency_flag )

\* C2: EMERGENCY_ESCALATED is absorbing: a turn that comes after an emergency
\* turn of the session has returned leaves the stage and the collected
\* fields (name, email, symptom overview, symptom history, preferred time)
\* as it found them, at EMERGENCY_ESCALATED, and does not signal
\* should_schedule.
C2_EscalatedAbsorbs ==
    \A r \in Requests :
        ( req[r].pc = "ai" /\ req[r].late ) =>
           /\ req[r].before.stage = EMERGENCY_ESCALATED
           /\ req[r].after.stage = EMERGENCY_ESCALATED
           /\ ~req[r].should_schedule
           /\ Collected(req[r].after) = Collected(req[r].before)

\* C3: over all the turns of a session, should_schedule is returned true at
\* most once.
C3_SignalOnce == signals <= 1

\* C4: at most one appointment is saved for a session, also when two
\* confirming requests are in flight at the same time.
C4_OneBooking == Len(appointment_store) <= 1

\* C5: no update is lost: when every request has completed, the stored
\* session holds the exchange (user message and reply) of every turn.
C5_NoLostUpdate ==
    ( AllIdle /\ Exists ) => Len(sessions[SID].message_history) = 2 * turns

\* C6: an emergency turn that ran while another request was waiting inside
\* finalize_chat_scheduling is not undone: once both requests have
\* completed, the stored session has emergency_flag set and stage
\* EMERGENCY_ESCALATED.
C6_EscalationSurvivesBooking ==
    ( raced /\ AllIdle ) =>
       /\ sessions[SID].emergency_flag
       /\ sessions[SID].stage = EMERGENCY_ESCALATED

Flow ==
    << WELCOME, CONFIRM_IDENTITY, COLLECT_SYMPTOMS, COLLECT_HISTORY,
       COLLECT_NAME, COLLECT_EMAIL, COLLECT_TIMING, CONFIRM_SUMMARY,
       CONFIRM_APPOINTMENT, SCHEDULED >>

Position(stage) == CHOOSE i \in 1..Len(Flow) : Flow[i] = stage

InFlow(stage) == \E i \in 1..Len(Flow) : Flow[i] = stage

Forward(from, to) ==
    \/ to = from
    \/ InFlow(from) /\ InFlow(to) /\ Position(from) < Position(to)
    \/ InFlow(from) /\ from # SCHEDULED /\ to = FOLLOW_UP

CorrectionJump(from, to) ==
    from = CONFIRM_SUMMARY /\ to \in { COLLECT_NAME, COLLECT_EMAIL, COLLECT_TIMING }

\* C7: the stage a turn leaves is the stage it found or a later one in the
\* flow (FOLLOW_UP being a forward side branch), except for the jumps back
\* from CONFIRM_SUMMARY to a collecting stage and the jump to
\* EMERGENCY_ESCALATED.
C7_StageMonotone ==
    \A r \in Requests :
        req[r].pc = "ai" =>
           \/ Forward(req[r].before.stage, req[r].after.stage)
           \/ CorrectionJump(req[r].before.stage, req[r].after.stage)
           \/ req[r].after.stage = EMERGENCY_ESCALATED

\* a turn moves forward again after a jump back from CONFIRM_SUMMARY
C7_Witness ==
    \E r \in Requests :
        /\ req[r].pc = "ai"
        /\ req[r].before.stage = COLLECT_NAME
        /\ req[r].after.stage = COLLECT_EMAIL
        /\ req[r].before.preferred_time_utc # NoTime

\* the k-th message of the session, as logged
UserText(k) == sessions[SID].message_history[2 * k - 1].content

Sequential(n) ==
    /\ AllIdle
    /\ overlaps = 0
    /\ turns = n
    /\ Exists
    /\ Len(sessions[SID].message_history) = 2 * n

\* C8, as claimed: from a fresh WELCOME session without pre-filled identity,
\* the five messages of the Script (symptoms, history, name, email, time)
\* leave the session at CONFIRM_SUMMARY with the first stored as
\* symptom_overview, the third as patient_name, the fourth as patient_email
\* and the fifth as preferred_time_utc.
C8_FiveMessages ==
    ( patient = "script" /\ Sequential(Len(Script)) ) =>
       /\ sessions[SID].stage = CONFIRM_SUMMARY
       /\ sessions[SID].symptom_overview = Script[1]
       /\ sessions[SID].patient_name = Script[3]
       /\ sessions[SID].patient_email = Script[4]
       /\ sessions[SID].preferred_time_utc =
             _parse_preferred_time(Script[5], caller.timezone, clock)

\* C8, amended: from a fresh WELCOME session without pre-filled identity,
\* six successive messages (an opening message, a symptom description, a
\* history narrative, a name, a valid email, a parseable date/time, none
\* with an emergency keyword) leave the session at CONFIRM_SUMMARY with the
\* second stored as symptom_overview, the fourth, sanitized, as
\* patient_name, the fifth, normalized, as patient_email and the instant
\* parsed from the sixth as preferred_time_utc.
C8_SixMessages ==
    ( /\ Sequential(6)
      /\ ~Truthy(caller.patient_name)
      /\ \A k \in 1..6 : ~_detect_emergency(UserText(k))
      /\ validate_email(UserText(5)) # NoValue
      /\ _parse_preferred_time(UserText(6), caller.timezone, clock) # NoTime ) =>
       /\ sessions[SID].stage = CONFIRM_SUMMARY
       /\ sessions[SID].symptom_overview = UserText(2)
       /\ sessions[SID].patient_name = _sanitize_name(UserText(4))
       /\ sessions[SID].patient_email = validate_email(UserText(5))
       /\ sessions[SID].preferred_time_utc =
             _parse_preferred_time(UserText(6), caller.timezone, clock)

\* the six messages have been answered and the summary is ready
C8_Witness ==
    /\ Sequential(6)
    /\ ~Truthy(caller.patient_name)
    /\ sessions[SID].stage = CONFIRM_SUMMARY
    /\ UserText(1) = "hola"
    /\ sessions[SID].symptom_overview = "I have a bad headache"
    /\ sessions[SID].patient_name = "Maria Lopez"
    /\ sessions[SID].patient_email = "Maria@example.com"

\* what a turn at COLLECT_EMAIL does with a message without emergency keyword
EmailRule(before, after, text) ==
    LET normalized == validate_email(text)
    IN  IF normalized = NoValue
        THEN /\ after.stage = COLLECT_EMAIL
             /\ after.patient_email = before.patient_email
        ELSE /\ after.stage = COLLECT_TIMING
             /\ after.patient_email = normalized

\* C9: at COLLECT_EMAIL a message that fails email validation leaves the
\* stage at COLLECT_EMAIL and patient_email as it was, and the turn returns
\* with a reply; a valid email is stored normalized and the stage becomes
\* COLLECT_TIMING.
C9_EmailStage ==
    /\ \A r \in Requests :
          ( /\ req[r].pc = "ai"
            /\ req[r].before.stage = COLLECT_EMAIL
            /\ req[r].kind = "normal" ) =>
             EmailRule(req[r].before, req[r].after, req[r].text)
    /\ ( /\ result.before.stage = COLLECT_EMAIL
         /\ result.kind = "normal" ) =>
            /\ EmailRule(result.before, result.after, result.text)
            /\ result.reply # ""
            /\ result.reply # NoValue

\* a turn at COLLECT_EMAIL has returned after an invalid address, the
\* address collected earlier still in place
C9_Witness ==
    /\ result.before.stage = COLLECT_EMAIL
    /\ result.text = "maria at example"
    /\ result.after.stage = COLLECT_EMAIL
    /\ result.after.patient_email = "Maria@example.com"
    /\ result.reply # ""

\* what a turn at COLLECT_TIMING does with a message without emergency keyword
TimingRule(before, after, text) ==
    LET instant == _parse_preferred_time(text, after.patient_timezone, clock)
    IN  IF instant = NoTime
        THEN /\ after.stage = COLLECT_TIMING
             /\ after.preferred_time_utc = before.preferred_time_utc
        ELSE /\ after.stage = CONFIRM_SUMMARY
             /\ after.preferred_time_utc = instant

Deciding == { CONFIRM_IDENTITY, CONFIRM_SUMMARY, CONFIRM_APPOINTMENT }

\* the words of triage.py:420-429 that send the summary back for correction
CorrectionKeywords ==
    { "name", "nombre", "email", "correo", "time", "date", "hora", "fecha" }

\* a message that is neither a yes, nor a no, nor a request for correction
Unclear(text) ==
    LET low == lower(text)
    IN  /\ ~_has_word(text, AFFIRMATIVE_WORDS)
        /\ ~_has_word(text, NEGATIVE_WORDS)
        /\ \A w \in CorrectionKeywords : ~Contains(low, w)

\* C11: at a stage that waits for a yes or a no (CONFIRM_IDENTITY,
\* CONFIRM_SUMMARY, CONFIRM_APPOINTMENT) a turn whose message is neither
\* affirmative, nor negative, nor a correction keyword, and is no emergency,
\* leaves the stage as it was and does not ask for scheduling.  No turn enters
\* CONFIRM_APPOINTMENT, so its branch of the stage machine is run on the
\* fetched state as it would be at that stage.
C11_UnclearStays ==
    \A r \in Requests :
        ( /\ req[r].pc = "ai"
          /\ req[r].kind = "normal"
          /\ req[r].before.stage \in Deciding
          /\ Unclear(req[r].text) )
        => /\ req[r].after.stage = req[r].before.stage
           /\ ~req[r].should_schedule
           /\ LET asked == [ req[r].before EXCEPT !.stage = CONFIRM_APPOINTMENT ]
                  out   == stage_machine(asked, req[r].text, clock)
              IN  /\ out.state.stage = CONFIRM_APPOINTMENT
                  /\ ~out.should_schedule

\* an unclear reply to the summary has been processed
C11_Witness ==
    \E r \in Requests :
        /\ req[r].pc = "ai"
        /\ req[r].kind = "normal"
        /\ req[r].before.stage = CONFIRM_SUMMARY
        /\ Unclear(req[r].text)
        /\ req[r].after.stage = CONFIRM_SUMMARY

\* C12: at CONFIRM_SUMMARY every turn whose message mentions the email
\* ("email" or "correo"), and is no emergency, ends at COLLECT_EMAIL with the
\* stored patient_email cleared and without asking for scheduling.
C12_EmailMention ==
    \A r \in Requests :
        ( /\ req[r].pc = "ai"
          /\ req[r].kind = "normal"
          /\ req[r].before.stage = CONFIRM_SUMMARY
          /\ LET low == lower(req[r].text)
             IN  Contains(low, "email") \/ Contains(low, "correo") )
        => /\ req[r].after.stage = COLLECT_EMAIL
           /\ req[r].after.patient_email = NoValue
           /\ ~req[r].should_schedule

\* a request has just fetched or created its session
Begins(r) == req[r].pc = "idle" /\ req'[r].pc = "ai"

\* C13: when a turn arrives for a session that no call of the store has
\* touched for longer than the TTL, get(session_id) returns nothing and the
\* turn starts from a state just created: stage WELCOME, every intake field
\* at its default, no notes, no message history; that state replaces the old
\* one in the store.
C13_ExpiredStartsFresh ==
    [][ \A r \in Requests :
          ( /\ Begins(r)
            /\ Exists
            /\ time - accessed > SESSION_TTL_MINUTES )
          => /\ ~found(sessions, time)
             /\ req'[r].before = ConversationState(time)
             /\ sessions'[SID].created_at = time
             /\ sessions'[SID].message_history = << >> ]_vars

\* a turn has started afresh after an earlier session had got past WELCOME
C13_Witness ==
    \E r \in Requests :
        /\ req[r].pc = "ai"
        /\ result.stage # WELCOME
        /\ req[r].before = ConversationState(time)
        /\ time > SESSION_TTL_MINUTES

\* C14: expiry depends on idle time only.  Every call of the store leaves
\* the session's updated_at at the minute of the call; a turn that arrives
\* no later than the TTL after the last call continues the stored session,
\* whatever its stage and however long ago it was created; a turn that
\* arrives later finds it expired, whatever its stage.
C14_InactivityOnly ==
    [][ /\ Exists' => sessions'[SID].updated_at = accessed'
        /\ \A r \in Requests :
              ( Begins(r) /\ Exists ) =>
                 IF time - accessed <= SESSION_TTL_MINUTES
                 THEN /\ found(sessions, time)
                      /\ req'[r].before.created_at = sessions[SID].created_at
                      /\ req'[r].before.stage = sessions[SID].stage
                      /\ req'[r].before.message_history
                            = sessions[SID].message_history
                 ELSE /\ ~found(sessions, time)
                      /\ req'[r].before.created_at = time ]_vars

\* a session older than the TTL is continued past WELCOME
C14_Witness ==
    \E r \in Requests :
        /\ req[r].pc = "ai"
        /\ req[r].before.stage \notin { WELCOME, COLLECT_SYMPTOMS }
        /\ time - req[r].before.created_at > SESSION_TTL_MINUTES

\* what a round trip through the store is to preserve
Preserved == { "stage", "patient_timezone" } \cup DOMAIN IntakeHistory

\* C15: for the state a turn is about to persist, update(state) followed by
\* get(session_id) at the same minute returns a state with the same stage,
\* the same value of every IntakeHistory field, the patient's timezone
\* included, the same notes and the same message history.
C15_RoundTrip ==
    \A r \in Requests :
        req[r].pc = "ai" =>
            LET state == Held(r)
                saved == update(sessions, state, time)
            IN  /\ found(saved, time)
                /\ \A field \in Preserved :
                      get(saved, time)[field] = state[field]

\* process_message returns for request r
Returns(r) == req[r].pc = "ai" /\ req'[r].pc # "ai"

\* the last exchange of a message history
LastExchange(state) ==
    SubSeq(state.message_history, Len(state.message_history) - 1,
           Len(state.message_history))

\* C16: when the text generator fails (raises, times out or returns nothing)
\* the turn still returns: the stage the stage machine reached is the stage
\* returned and the stage stored, the exchange is in the stored history, and
\* the reply is the fixed text of the outcome: the emergency text on an
\* emergency turn, else the fallback template of the resulting stage.
C16_GeneratorFailure ==
    [][ \A r \in Requests :
          ( Returns(r) /\ ~ai_up ) =>
             /\ result'.text = req[r].text
             /\ overlaps = 0 => result'.stage = req[r].after.stage
             /\ sessions'[SID].stage = result'.stage
             /\ Len(sessions'[SID].message_history) >= 2
             /\ LastExchange(sessions'[SID])
                   = << [ role |-> "user", content |-> req[r].text ],
                        [ role |-> "assistant", content |-> result'.reply ] >>
             /\ result'.reply =
                   IF req[r].kind = "emergency" THEN EmergencyReply
                   ELSE _fallback_response(result'.stage, sessions'[SID]) ]_vars

\* without a generator, a turn has moved the session to the summary and
\* answered with the summary template
C16_Witness ==
    /\ ~ai_up
    /\ result.before.stage = COLLECT_TIMING
    /\ result.stage = CONFIRM_SUMMARY
    /\ result.reply = _fallback_response(CONFIRM_SUMMARY, result.after)
    /\ Exists
    /\ sessions[SID].stage = CONFIRM_SUMMARY

\* C17: when storing the appointment fails during a booking, the request is
\* answered with the store failure, no notification is dispatched and no
\* appointment exists: the appointment store is as it was, the session's
\* appointment_id stays unset and the answer does not report the appointment
\* confirmed.  No answer reports an appointment confirmed, and no session
\* names an appointment, that the appointment store does not hold.
C17_StoreFailure ==
    [][ /\ \A r \in Requests :
              ( Returns(r) /\ response' # response
                /\ response'.status = StoreFailure.status ) =>
                 /\ response'.detail = StoreFailure.detail
                 /\ req'[r].pc = "idle"
                 /\ appointment_store' = appointment_store
                 /\ ~response'.appointment_confirmed
                 /\ Exists' => sessions'[SID].appointment_id = 0
        /\ response'.appointment_confirmed => Len(appointment_store') >= 1
        /\ Exists' => sessions'[SID].appointment_id <= Len(appointment_store')
      ]_vars

\* a booking has ended with the store failure, the session left at SCHEDULED
\* without an appointment
C17_Witness ==
    /\ response.status = StoreFailure.status
    /\ \A r \in Requests : req[r].pc = "idle"
    /\ result.should_schedule
    /\ Exists
    /\ sessions[SID].stage = SCHEDULED
    /\ sessions[SID].appointment_id = 0
    /\ appointment_store = << >>

\* send_bulk raises for request r
Undelivered(r) ==
    req[r].pc = "notify" /\ req'[r].pc = "idle" /\ response'.status # 200

\* C18: when the notifications fail after the appointment was stored, the
\* stored appointment stays in the appointment store, and the request is
\* answered with an error whose status and detail are not those of the
\* store failure.
C18_NotifyFailure ==
    [][ \A r \in Requests :
          Undelivered(r) =>
             /\ appointment_store' = appointment_store
             /\ req[r].appointment_id \in 1..Len(appointment_store')
             /\ appointment_store'[req[r].appointment_id].appointment_id
                   = req[r].appointment_id
             /\ response'.status # StoreFailure.status
             /\ response'.detail # StoreFailure.detail
             /\ ~response'.appointment_confirmed ]_vars

\* a booking has ended with the notification failure, its appointment stored
C18_Witness ==
    /\ response.status = NotifyFailure.status
    /\ response.appointment_id \in 1..Len(appointment_store)
    /\ \A r \in Requests : req[r].pc = "idle"

\* C20: a turn during which the session store failed is not answered as a
\* success on a reset or unpersisted session: whenever the last request of
\* a session served one request at a time was answered with success, the
\* stored session ends with that turn's exchange, and the turn had started
\* from the history of all the turns before it.
C20_NoSilentLoss ==
    ( /\ \A r \in Requests : req[r].pc = "idle"
      /\ turns >= 1
      /\ response.status = 200 )
    => /\ Exists
       /\ Len(sessions[SID].message_history) >= 2
       /\ LastExchange(sessions[SID])
             = << [ role |-> "user", content |-> result.text ],
                  [ role |-> "assistant", content |-> result.reply ] >>
       /\ Len(result.before.message_history) = 2 * (turns - 1)

\* C19: for batches of two messages, what send_bulk hands its caller tells a
\* partial failure (one recipient failed) from a total failure (both
\* failed): no batch of the one kind ends with the outcome of a batch of the
\* other kind.
C19_PartialOrTotal ==
    \A i, j \in 1..Len(reports) :
        ( /\ Cardinality(reports[i].failed) = 1
          /\ Cardinality(reports[j].failed) = BatchSize )
        => reports[i].outcome # reports[j].outcome

\* C21: every record the appointment store holds carries, for the contact,
\* the keyed digest of the contact and nothing else: while a booking waits
\* for its notifications, its record's patient_contact_hash is the digest
\* under the deployment's key of the address the booking was made for, and
\* neither that field nor the patient name is the address itself.
C21_ContactHashed ==
    \A r \in Requests :
        req[r].pc = "notify" =>
            LET record  == appointment_store[req[r].appointment_id]
                contact == Held(r).patient_email
            IN  /\ DOMAIN record = { "appointment_id", "patient_name",
                                     "patient_contact_hash", "appointment_time" }
                /\ record.patient_contact_hash = hexdigest(SecretKey, contact)
                /\ record.patient_contact_hash # contact
                /\ record.patient_name # contact

\* a booking made for a typed address waits for its notifications
C21_Witness ==
    \E r \in Requests :
        /\ req[r].pc = "notify"
        /\ Held(r).patient_email = "Maria@example.com"
        /\ Len(appointment_store) >= 1

\* C22: no appointment is made on the confirmation of the summary alone: a
\* turn asks for scheduling only when it answers the booking question, that
\* is when the state it fetched stands at CONFIRM_APPOINTMENT, and a booking
\* waits for its notifications only for such a turn.
C22_BookingQuestion ==
    \A r \in Requests :
        ( req[r].should_schedule \/ req[r].pc = "notify" )
        => req[r].before.stage = CONFIRM_APPOINTMENT

\* the locale hints a turn may carry
LocaleHints == { NoValue, "es", "en" }

\* C23: the locale of a session is sticky: a turn that fetches a state whose
\* locale_preference has a value leaves that value as it is, whatever the
\* language of its message, and would leave it so under every locale hint.
C23_LocaleSticky ==
    \A r \in Requests :
        ( /\ req[r].pc = "ai"
          /\ Truthy(req[r].before.locale_preference) )
        => /\ req[r].after.locale_preference = req[r].before.locale_preference
           /\ \A hint \in LocaleHints :
                 remember_locale(req[r].before, req[r].text, hint).locale_preference
                     = req[r].before.locale_preference

\* a session whose locale was detected as Spanish receives an English
\* message without hint
C23_Witness ==
    \E r \in Requests :
        /\ req[r].pc = "ai"
        /\ req[r].kind = "normal"
        /\ req[r].before.locale_preference = "es"
        /\ caller.locale = NoValue
        /\ ~_has_word(req[r].text, SPANISH_MARKERS)
        /\ req[r].after.locale_preference = "es"

\* the last n entries of a sequence, all of them when it has fewer
MostRecent(entries, n) ==
    IF Len(entries) > n THEN SubSeq(entries, Len(entries) - n + 1, Len(entries))
    ELSE entries

\* C24: the message history of a session never holds more than max_history
\* (20) entries, and it is the most recent entries of everything that was
\* appended, in the order of appending: the oldest entries are the ones
\* dropped.
C24_HistoryWindow ==
    Exists =>
        /\ Len(sessions[SID].message_history) <= max_history
        /\ sessions[SID].message_history = MostRecent(transcript, max_history)

\* more has been appended than the history keeps
C24_Witness ==
    /\ Exists
    /\ Len(transcript) > max_history
    /\ Len(sessions[SID].message_history) = max_history
    /\ sessions[SID].message_history[1] # transcript[1]

\* C25: every turn that reaches the stage machine appends to the notes one
\* audit note that carries the message as typed, whatever the stage and
\* whether or not the message was accepted; the notes already there stay.
C25_AuditNote ==
    \A r \in Requests :
        ( req[r].pc = "ai" /\ req[r].kind = "normal" )
        => LET old  == req[r].before.notes
               new  == req[r].after.notes
               text == req[r].text
           IN  /\ Len(new) = Len(old) + 1
               /\ SubSeq(new, 1, Len(old)) = old
               /\ Len(new[Len(new)]) >= Len(text)
               /\ SubSeq(new[Len(new)], Len(new[Len(new)]) - Len(text) + 1,
                         Len(new[Len(new)])) = text

\* C26: no failure of a collaborator keeps the emergency outcome of a turn
\* from being produced and recorded: when the last request, served alone,
\* was an emergency turn answered with success, the stored session is at
\* EMERGENCY_ESCALATED with the emergency flag set.
C26_EmergencyRecorded ==
    ( /\ \A r \in Requests : req[r].pc = "idle"
      /\ turns >= 1
      /\ result.kind = "emergency"
      /\ result.emergency_noted
      /\ response.status = 200 )
    => /\ Exists
       /\ sessions[SID].stage = EMERGENCY_ESCALATED
       /\ sessions[SID].emergency_flag

\* the awaits of a request: the text generator and send_bulk
Calling == { "generate", "send" }

\* C27: the lock of the session store is never held across an external
\* call: a task whose text-generation call or notification call is in
\* progress does not hold the lock, and whoever holds it is inside a block
\* of the store, so the others can get it.
C27_NoLockAcrossCall ==
    /\ \A t \in Tasks : at[t] \in Calling => lock # t
    /\ lock # Free => at[lock] \notin DOMAIN entered

\* while one request waits for the text generator and another for the
\* notifications, a third one writes its session
C27_Witness ==
    \E t, u, v \in Tasks :
        /\ at[t] = "generate"
        /\ at[u] = "send"
        /\ at[v] = "update"
        /\ lock = v

\* C28: CONFIRM_IDENTITY is entered only from WELCOME and only with a name
\* and an email given by the authenticated caller and stored on the session;
\* a WELCOME turn on a session without both goes to COLLECT_SYMPTOMS; and a
\* turn at CONFIRM_IDENTITY whose message is negative clears name and email
\* and goes to COLLECT_SYMPTOMS.  Emergency turns are left aside.
C28_IdentityStage ==
    \A r \in Requests :
        ( req[r].pc = "ai" /\ req[r].kind = "normal" )
        => LET was == req[r].before
               now == req[r].after
           IN  /\ ( now.stage = CONFIRM_IDENTITY /\ was.stage # CONFIRM_IDENTITY )
                  => /\ was.stage = WELCOME
                     /\ Truthy(caller.patient_name) /\ Truthy(caller.patient_email)
                     /\ now.patient_name = _sanitize_name(caller.patient_name)
                     /\ now.patient_email = caller.patient_email
               /\ ( /\ was.stage = WELCOME
                    /\ ~( Truthy(now.patient_name) /\ Truthy(now.patient_email) ) )
                  => now.stage = COLLECT_SYMPTOMS
               /\ ( /\ was.stage = CONFIRM_IDENTITY
                    /\ _has_word(req[r].text, NEGATIVE_WORDS) )
                  => /\ now.stage = COLLECT_SYMPTOMS
                     /\ now.patient_name = NoValue
                     /\ now.patient_email = NoValue

\* C29: after every turn with a non-empty message, normal or emergency, the
\* stored message history ends with the user's message followed by the
\* reply the turn returned.
C29_ExchangeStored ==
    [][ \A r \in Requests :
          Returns(r) =>
              /\ SID \in DOMAIN sessions'
              /\ Len(sessions'[SID].message_history) >= 2
              /\ LastExchange(sessions'[SID])
                    = << [ role |-> "user", content |-> req[r].text ],
                         [ role |-> "assistant", content |-> result'.reply ] >>
      ]_vars

\* the stages in which nothing more is collected
Settled == { SCHEDULED, FOLLOW_UP, COMPLETED }

\* what a turn records whatever the stage, when it has not been recorded yet
Hints == { "locale_preference", "patient_timezone" }

\* every field of the state but the named ones is the same in both
Same(was, now, but) ==
    /\ DOMAIN now = DOMAIN was
    /\ \A field \in DOMAIN was \ but : now[field] = was[field]

\* the turn leaves stage, intake fields, notes and flags as they were and
\* asks for no scheduling; a hint already recorded stays
Framed(was, out) ==
    /\ Same(was, out.state, Hints)
    /\ \A hint \in Hints : Truthy(was[hint]) => out.state[hint] = was[hint]
    /\ ~out.should_schedule

\* C30 (as stated): in the stages SCHEDULED, FOLLOW_UP and COMPLETED a
\* message without emergency keyword leaves the stage and the collected
\* intake fields unchanged and asks for no scheduling; nothing changes but
\* the message history and the timestamps.
C30_OnlyHistoryChanges ==
    \A r \in Requests :
        ( /\ req[r].pc = "ai"
          /\ req[r].kind = "normal"
          /\ req[r].before.stage \in Settled )
        => /\ Same(req[r].before, req[r].after, { })
           /\ ~req[r].should_schedule

\* C30 (amended): in the stages SCHEDULED, FOLLOW_UP and COMPLETED a message
\* without emergency keyword leaves the stage and the collected intake
\* fields unchanged and asks for no scheduling; nothing changes but the
\* message history, the timestamps and a locale preference or time zone
\* that was not set before.  No turn reaches COMPLETED, so the turn is also
\* run on the fetched state as it would be at that stage.
C30_SettledFrame ==
    \A r \in Requests :
        ( /\ req[r].pc = "ai"
          /\ req[r].kind = "normal"
          /\ req[r].before.stage \in Settled )
        => /\ Framed(req[r].before,
                     [ state |-> req[r].after,
                       should_schedule |-> req[r].should_schedule ])
           /\ LET done == [ req[r].before EXCEPT !.stage = COMPLETED ]
              IN  Framed(done, process_message(done, req[r].text, caller, Now))

\* a booked session whose locale was not known is thanked in Spanish
C30_Witness ==
    \E r \in Requests :
        /\ req[r].pc = "ai"
        /\ req[r].kind = "normal"
        /\ req[r].before.stage = SCHEDULED
        /\ req[r].before.appointment_id # 0
        /\ req[r].before.locale_preference = NoValue
        /\ req[r].after.locale_preference = "es"
        /\ req[r].after.stage = SCHEDULED

\* the instant that is h:00 on local day d in the zone off hours from UTC
LocalHour(day, h, off) == day * 24 + h - off

\* C31: a message with one relative phrase of day offset d is stored as the
\* instant whose local date, in the time zone of the session, is today + d
\* and whose local time is h:00, h being the hour stated in the message and
\* 10 when it states none; "tomorrow at 3pm" in America/New_York is 15:00
\* local on the next day.
C31_RelativeTime ==
    \A r \in Requests :
        ( /\ req[r].pc = "ai"
          /\ req[r].kind = "normal"
          /\ req[r].before.stage = COLLECT_TIMING
          /\ Cardinality(RelativeHits(lower(req[r].text))) = 1 )
        => LET lowered == lower(req[r].text)
               d     == _RELATIVE_TIME_MAP[Min(RelativeHits(lowered))][2]
               off   == _resolve_tz(req[r].after.patient_timezone)
               today == DayOf(clock + off)
               h     == IF ClockHits(lowered) = {} THEN 10
                        ELSE (CHOOSE t \in ClockHits(lowered) : TRUE)[2]
           IN  req[r].after.preferred_time_utc = LocalHour(today + d, h, off)

\* C32: the two notifications of an appointment are sent independently:
\* every send of a batch is started with the batch, and whatever has
\* happened to one send, the other is under way or has come to its own end,
\* sent or failed; a batch is over only when each send has come to its end.
C32_Independent ==
    /\ batch # NoBatch =>
          \A k \in Recipients : batch.tasks[k] \in { "pending", "sent", "failed" }
    /\ \A i \in 1..Len(reports) :
          /\ reports[i].failed \subseteq Recipients
          /\ reports[i].outcome.kind = "raised" <=> reports[i].failed # { }

\* the notification to the patient has failed and send_bulk has raised;
\* the notification to the doctor has gone out after that
C32_Witness ==
    /\ batch.outcome = [ kind |-> "raised", of |-> 1 ]
    /\ batch.tasks[1] = "failed"
    /\ batch.tasks[2] = "sent"

C34_RetryAfterFailure ==
    \A r \in Requests :
        ( /\ req[r].pc = "ai"
          /\ req[r].kind = "normal"
          /\ req[r].before.stage = SCHEDULED
          /\ req[r].before.appointment_id = 0
          /\ _has_word(req[r].text, AFFIRMATIVE_WORDS) )
        => req[r].should_schedule

\* what the generator may hand back at a stage: nothing (it is absent, it
\* raised, it timed out), an empty text, or some text
GeneratorOutputs(stage) ==
    { NoValue, "", "Of course.", generate_response(TRUE, stage) }

\* the state a turn persists when the generator hands back generated
Outcome(r, generated) ==
    log_exchange(Held(r), req[r].text, reply_for(req[r].kind, generated, Held(r)))

\* C35: the stage transition does not depend on the response generator: for
\* the state a turn holds and its message, the stage, the intake fields, the
\* notes and the flags persisted are the same whether the generator is
\* absent, fails or returns any text, and should_schedule is fixed before it
\* is called; the outcomes differ in the reply, the last entry of the
\* message history, and in nothing else.
C35_GeneratorIndependent ==
    \A r \in Requests :
        req[r].pc = "ai" =>
            \A generated \in GeneratorOutputs(Held(r).stage) :
                LET with    == Outcome(r, generated)
                    without == Outcome(r, NoValue)
                    n       == Len(with.message_history)
                IN  /\ Same(without, with, { "message_history" })
                    /\ Same(Held(r), with, { "message_history" })
                    /\ Len(without.message_history) = n
                    /\ SubSeq(with.message_history, 1, n - 1)
                          = SubSeq(without.message_history, 1, n - 1)
                    /\ with.message_history[n]
                          = [ role |-> "assistant",
                              content |-> reply_for(req[r].kind, generated, Held(r)) ]

\* a turn that confirms the summary waits for a generator whose text is not
\* the canned reply
C35_Witness ==
    \E r \in Requests :
        /\ req[r].pc = "ai"
        /\ ai_up
        /\ req[r].should_schedule
        /\ req[r].before.stage = CONFIRM_SUMMARY
        /\ Outcome(r, "Of course.").message_history
              # Outcome(r, NoValue).message_history
        /\ Outcome(r, "Of course.").stage = SCHEDULED

\* C36: a message of white space only is a no-op on the session: the call
\* returns the stage the session has, with should_schedule false, and the
\* stored stage, intake fields, notes and message history are what they
\* were (those of a new session when there was none), also when the call
\* carries an authenticated identity.
C36_BlankNoOp ==
    [][ ( result'.kind = "empty" /\ UNCHANGED req ) =>
          LET was == IF Exists THEN sessions[SID] ELSE NewState
          IN  /\ SID \in DOMAIN sessions'
              /\ \A field \in ( DOMAIN was \cap DOMAIN sessions'[SID] )
                                    \ { "created_at", "updated_at" } :
                     sessions'[SID][field] = was[field]
              /\ result'.stage = was.stage
              /\ ~result'.should_schedule
      ]_vars

\* the messages an intake takes: one per stage from WELCOME to
\* CONFIRM_SUMMARY, and one more when the identity is to be confirmed
TurnsToBook == IF Truthy(caller.patient_name) /\ Truthy(caller.patient_email)
               THEN 8 ELSE 7

C38_BackendsAgree == both.returned.memory = both.returned.table

\* C39: the session id a turn returns is the id the caller supplied whenever
\* one was supplied, also when that id is unknown or expired (the new
\* session is created under it); a random id is generated only when none
\* was supplied.
C39_SessionIdKept ==
    turns > 0 =>
       /\ Truthy(result.supplied) => result.session_id = result.supplied
       /\ result.session_id # result.supplied =>
             ( ~Truthy(result.supplied) /\ result.session_id \in Tokens )
       /\ result.session_id \in DOMAIN sessions
       /\ sessions[result.session_id].session_id = result.session_id

C39_Witness ==
    /\ turns > 0
    /\ result.supplied = "s2"
    /\ result.known
    /\ ~result.resumed
    /\ result.session_id = "s2"
    /\ sessions["s2"].stage = COLLECT_SYMPTOMS

=============================================================================
